---- MODULE Spec2Model ----
(***************************************************************************)
(* Verification model of the AgentRunbooks control plane.                  *)
(*                                                                         *)
(*   Spec         one run: the gateway's HTTP operations on the run        *)
(*                (create, cancel, resume, pause, approve, deny)           *)
(*                interleaved with the orchestrator's RunbookWorkflow,     *)
(*                one action per activity call                             *)
(*   SpecPolicy   policy_validate / decide as pure functions               *)
(*   SpecAdapter  the real k8s and github adapters against the external    *)
(*                system, one action per external call                     *)
(*   SpecAudit    write_audit with its read and its commit as separate     *)
(*                steps (request handlers run concurrently), payload       *)
(*                tampering and the verify endpoint                        *)
(*   SpecFair     Spec with the workflow's steps and the clock scheduled   *)
(*                fairly, for the properties of the form "eventually"      *)
(*   SpecAuditSeq write_audit calls that do not overlap                    *)
(*   SpecUsage    the workflow of a run whose policy allows the tool, with *)
(*                or without a token budget; no cancel, pause or deny      *)
(*   SpecTenant   policies created by two tenants and the policy that      *)
(*                load_context returns for a run                           *)
(*   SpecRbac     authorize over a table of role bindings                  *)
(*   SpecFlags    POST /tools/invoke beside the feature-flag lookup        *)
(*   SpecEvents   the event stream of a run beside the writes to its steps *)
(*   SpecCanary   canary policies and the promotion of a shadow run        *)
(*   SpecShadow   compute_shadow on the rows of a finished shadow run      *)
(*   SpecGate     the workflow's policy gate for a run of a given creator  *)
(*   SpecWhen     _eval_expr on when expressions with and / or operators   *)
(*   SpecApprove  one POST /approvals/{id}/approve with its response       *)
(*   SpecAuth     auth_middleware on one request and its credentials       *)
(*   SpecRate     check_rate_limit on the token buckets of two subjects    *)
(*   SpecTokenize _tokenize on short when strings, one action per          *)
(*                iteration of its loop                                    *)
(***************************************************************************)
EXTENDS Integers, Sequences, FiniteSets, TLC

VARIABLES
    \* ---- gateway database: one run, its steps and approvals
    now,          \* wall clock, minutes
    runStatus,    \* "none" before POST /runs, then a RunStatus value
    runMode,      \* payload.mode of the run
    runbook,      \* the parsed steps of the run's runbook
    reqContext,   \* payload.context of POST /runs
    policyDb,     \* the latest policy row, parsed
    stepStatus,   \* step name -> StepStatus ("absent" before creation)
    stepError,    \* step name -> error tag
    approvals,    \* step name -> approval row
    runTokens,    \* run.metrics tokens_in + tokens_out
    \* ---- orchestrator: the workflow of the run
    pc,           \* position of RunbookWorkflow.run
    cur,          \* index of the step the for-loop is at
    ctx,          \* result of load_context
    totals,       \* the workflow's totals (tokens)
    brainCache,   \* _brain_cache[run_id]
    waitEnd,      \* end_time of the running wait_for_approval
    invoked,      \* step name -> whether invoke_adapter was ever called for the step
    attempts,     \* attempts made so far by the invoke_adapter activity in progress
    compInvoked,  \* step name -> number of compensate calls
    timedOut,     \* steps whose wait_for_approval returned False
    cancelSkipped, \* steps that cancel_run set to skipped
    invokeRes,    \* the workflow's local res: the result invoke_adapter returned
    adapterCalls, \* the calls the activities handed to an adapter's invoke()
    \* ---- policy evaluation as a function
    pvIn,         \* arguments of policy_validate
    pvOut,        \* its result
    \* ---- adapters and the external systems
    calls,        \* invocation id -> state of one adapter invoke()
    node,         \* the k8s node
    deploy,       \* the k8s deployment
    github,       \* the repository on the code host
    effects,      \* invocation id -> the mutating external calls it made
    \* ---- audit log
    auditLog,     \* rows of audit_logs in ts order
    writers,      \* writer id -> state of one write_audit call
    verifyOut,    \* last result of GET /audit/verify
    tampered,     \* the altered entry: its tenant and its position among the tenant's rows
    \* ---- policies of several tenants
    policyRows,   \* rows of policies in created_at order: tenant_id and parsed yaml
    loaded,       \* the policy load_context last returned, with the tenant of its run
    \* ---- one request served by a gateway function
    reqIn,        \* the request and the rows it is served from
    reqOut,       \* its outcome
    \* ---- GET /runs/{id}/events: one subscriber of the run's steps
    rowStatus,    \* step name -> status of its row, as the stream's queries see it
    last_states,  \* the generator's dict of the last status it emitted per step
    events,       \* the events the subscriber has received, in order
    transitions,  \* the status writes to the step rows after their creation, in order
    \* ---- canary promotion: one shadow run, its runbook, the "default" canary policy
    runMetrics,      \* run.metrics of the run
    canaryPolicy,    \* <<>> or <<thresholds>> of the canary policy named "default"
    canary_promoted  \* Runbook.canary_promoted of the run's runbook

engineVars  == <<now, runStatus, runMode, runbook, reqContext, policyDb, stepStatus,
                 stepError, approvals, runTokens, pc, cur, ctx, totals, brainCache,
                 waitEnd, invoked, attempts, compInvoked, timedOut, cancelSkipped, invokeRes, adapterCalls>>
policyVars  == <<pvIn, pvOut>>
adapterVars == <<calls, node, deploy, github, effects>>
auditVars   == <<auditLog, writers, verifyOut, tampered>>
tenantVars  == <<policyRows, loaded>>
streamVars  == <<rowStatus, last_states, events, transitions>>
canaryVars  == <<runMetrics, canaryPolicy, canary_promoted>>
requestVars == <<reqIn, reqOut, streamVars, canaryVars>>
vars        == <<engineVars, policyVars, adapterVars, auditVars, tenantVars, requestVars>>

None == "None"

(***************************************************************************)
(* Bounds                                                                  *)
(***************************************************************************)
NumSteps == 2          \* steps of a runbook
MaxNow == 60           \* the clock stops here
TickMinutes == 30      \* granularity of the clock

(***************************************************************************)
(* Program constants                                                       *)
(***************************************************************************)
APPROVAL_SIG_TTL_MIN == 30
WaitTimeoutMin == 60           \* wait_for_approval timeout_s = 3600
MaximumAttempts == 4           \* RetryPolicy(maximum_attempts=4)

StepNames == 1..NumSteps
Terminal == {"succeeded", "failed", "skipped", "compensated"}

(***************************************************************************)
(* Inputs of the run                                                       *)
(***************************************************************************)
Tools == {"k8s.drain_node", "pagerduty.ack"}
Roles == {"Admin", "SRE", "Viewer"}
Modes == {"execute", "dry-run", "shadow"}

\* A declarative step of a runbook: {name, tool, requires_approval?, compensate?}.
\* The step's name is its position.
StepDecl == [tool : {"k8s.drain_node"}, requires_approval : BOOLEAN, compensate : BOOLEAN]
Runbooks == [StepNames -> StepDecl]

(***************************************************************************)
(* Python values of the precondition language: a value is <<type, text>>    *)
(***************************************************************************)
VStr(s) == <<"str", s>>
VTrue == <<"bool", "True">>
VFalse == <<"bool", "False">>
VNone == <<"none", "None">>
VBool(b) == IF b THEN VTrue ELSE VFalse

\* bool(v): None, False and the empty string are falsy
Truthy(v) == v \notin {VNone, VFalse, VStr("")}

\* a context (or a step) is a function from a finite set of keys to values
EmptyDict == [k \in {} |-> VNone]
DictGet(d, k) == IF k \in DOMAIN d THEN d[k] ELSE VNone

\* Tokens, as _tokenize classifies them:
\*   <<"op", "==">>, <<"kw", "and">>, <<"lit", s>>    operator, keyword, 'string'
\*   <<"word", "True">>                               true/false in any case
\*   <<"id", ns, key>>                                ns.key
TEq == <<"op", "==">>
TNeq == <<"op", "!=">>
TAnd == <<"kw", "and">>
TOr == <<"kw", "or">>
TLParen == <<"op", "(">>
TRParen == <<"op", ")">>
TLit(s) == <<"lit", s>>
TWord(b) == <<"word", IF b THEN "True" ELSE "False">>
TId(ns, key) == <<"id", ns, key>>

(***************************************************************************)
(* policy_engine.py                                                        *)
(***************************************************************************)
\* _parse_value: a token as a literal or an identifier
ParseValue(tok, context, step) ==
    CASE tok[1] = "lit" -> VStr(tok[2])
      [] tok[1] = "word" -> VBool(tok[2] = "True")
      [] tok[1] = "id" ->
            IF tok[2] = "context" THEN DictGet(context, tok[3])
            ELSE IF tok[2] = "step" THEN DictGet(step, tok[3])
            ELSE VNone
      [] OTHER ->   \* a one-part token: context first, then step
            IF tok[2] \in DOMAIN context THEN context[tok[2]] ELSE DictGet(step, tok[2])

\* str(result) of a Python bool, as the token _eval_expr splices back
StrBool(b) == TWord(b)

\* index of the first token among ts that is in S, 0 if there is none
FirstIn(ts, S) ==
    IF \E i \in 1..Len(ts) : ts[i] \in S
    THEN CHOOSE i \in 1..Len(ts) : ts[i] \in S /\ \A j \in 1..(i - 1) : ts[j] \notin S
    ELSE 0

\* the loop over "(" and ")" of _eval_expr: the first span ( ... ) that closes at
\* level 0, or the level left at the end of the tokens
RECURSIVE ParenScan(_, _, _, _)
ParenScan(ts, i, level, start) ==
    IF i > Len(ts) THEN [kind |-> "end", level |-> level, start |-> 0, stop |-> 0]
    ELSE IF ts[i] = TLParen
         THEN ParenScan(ts, i + 1, level + 1, IF level = 0 THEN i ELSE start)
    ELSE IF ts[i] = TRParen
         THEN IF level - 1 = 0
              THEN [kind |-> "span", level |-> 0, start |-> start, stop |-> i]
              ELSE ParenScan(ts, i + 1, level - 1, start)
    ELSE ParenScan(ts, i + 1, level, start)

\* _eval_expr below the parentheses: every == and != is reduced from the left, then
\* the first "and" (else the first "or") decides from the two tokens next to it.
\* The tokenizer never yields an "in" token (it splits the word into "i" and "n"),
\* so the membership branches take no input.  "Raise" is an IndexError.
RECURSIVE EvalFlat(_, _, _)
EvalFlat(ts, context, step) ==
    LET n == Len(ts)
        c == FirstIn(ts, {TEq, TNeq})
        a == FirstIn(ts, {TAnd})
        o == FirstIn(ts, {TOr})
        At(k) == IF k = 0 THEN ts[n] ELSE ts[k]      \* tokens[idx - 1] with idx = 0
    IN  IF c # 0
        THEN IF c = 1 \/ c = n THEN "False"
             ELSE LET l == ParseValue(ts[c - 1], context, step)
                      r == ParseValue(ts[c + 1], context, step)
                      res == IF ts[c] = TEq THEN l = r ELSE l # r
                  IN  EvalFlat(SubSeq(ts, 1, c - 2) \o <<StrBool(res)>> \o SubSeq(ts, c + 2, n),
                               context, step)
        ELSE IF a # 0
        THEN IF a = n THEN "Raise"
             ELSE IF Truthy(ParseValue(At(a - 1), context, step))
                     /\ Truthy(ParseValue(ts[a + 1], context, step))
                  THEN "True" ELSE "False"
        ELSE IF o # 0
        THEN IF o = n THEN "Raise"
             ELSE IF Truthy(ParseValue(At(o - 1), context, step))
                     \/ Truthy(ParseValue(ts[o + 1], context, step))
                  THEN "True" ELSE "False"
        ELSE IF n = 1 /\ Truthy(ParseValue(ts[1], context, step)) THEN "True"
        ELSE "False"

\* _eval_expr
RECURSIVE EvalExpr(_, _, _)
EvalExpr(ts, context, step) ==
    IF ts = <<>> THEN "False"
    ELSE LET scan == ParenScan(ts, 1, 0, 0) IN
         IF scan.kind = "span"
         THEN LET inner == EvalExpr(SubSeq(ts, scan.start + 1, scan.stop - 1), context, step)
              IN  IF inner = "Raise" THEN "Raise"
                  ELSE EvalExpr(SubSeq(ts, 1, scan.start - 1) \o <<StrBool(inner = "True")>>
                                    \o SubSeq(ts, scan.stop + 1, Len(ts)),
                                context, step)
         ELSE IF scan.level # 0 THEN "False"
         ELSE EvalFlat(ts, context, step)

\* decide: the `then` of the first rule that applies to the step and whose `when`
\* is truthy; a rule whose evaluation raises is skipped.  A rule is
\* [when |-> tokens, then |-> verdict, step |-> name or None].
RECURSIVE decide(_, _, _)
decide(preconditions, step, context) ==
    IF preconditions = <<>> THEN None
    ELSE LET prec == Head(preconditions)
             skip == prec.step # VNone /\ prec.step # DictGet(step, "name")
         IN  IF ~skip /\ EvalExpr(prec.when, context, step) = "True"
             THEN prec.then
             ELSE decide(Tail(preconditions), step, context)

(***************************************************************************)
(* orchestrator/app/activities.py: policy_validate                          *)
(***************************************************************************)
\* A policy is [tool_allowlist |-> role -> set of tools (a dict, possibly empty),
\*              preconditions |-> sequence of rules, max_tokens |-> <<>> or <<limit>>].
\* schemaErrors are the messages of the JSON-schema validation of step.input.
AllowlistGet(allowlist, role) == IF role \in DOMAIN allowlist THEN allowlist[role] ELSE {}

Allowed(tool, allowlist, user_roles) ==
    \E role \in user_roles : tool \in AllowlistGet(allowlist, role)

PvRequireApproval(reasons) ==
    [ok |-> TRUE, reasons |-> <<>>, require_approval |-> TRUE]

policy_validate(step, policy, user_roles, context, schemaErrors) ==
    LET allowlist == policy.tool_allowlist
        r1 == IF DOMAIN allowlist # {} /\ ~Allowed(step["tool"][2], allowlist, user_roles)
              THEN <<"tool not allowed for roles">> ELSE <<>>
        r2 == r1 \o schemaErrors
        evaluated == policy.preconditions # <<>> /\ DOMAIN context # {}
        decision == IF evaluated THEN decide(policy.preconditions, step, context) ELSE None
        r3 == IF decision = "block" THEN r2 \o <<"precondition blocked">> ELSE r2
    IN  IF decision = "require_approval"
        THEN PvRequireApproval(r2)
        ELSE [ok |-> r3 = <<>>, reasons |-> r3, require_approval |-> FALSE]

\* gateway/app/policy_guard.py: check_allowlist, the violations of the allowlist gate
check_allowlist(user_roles, tool, policy) ==
    IF Allowed(tool, policy.tool_allowlist, user_roles) THEN {}
    ELSE IF DOMAIN policy.tool_allowlist # {} THEN {tool}
    ELSE {}

(***************************************************************************)
(* gateway/app/security.py: approval tokens                                *)
(***************************************************************************)
\* A token is the sequence of its "."-separated parts; <<>> is no token.
\* A nullable column holds <<>> (null) or <<value>>.
\* sign_approval draws a fresh nonce and returns sig = HMAC(secret, canonical of
\* {run_id, step_name, nonce, expires_at}) and token = nonce "." sig[:16].
Nonce(name) == [k |-> "nonce", of |-> name]
sign_approval(name, t) ==
    [sig |-> <<[step_name |-> name, nonce |-> Nonce(name),
                expires_at |-> t + APPROVAL_SIG_TTL_MIN]>>,
     token |-> <<Nonce(name), [k |-> "mac", of |-> name]>>,
     expires_at |-> <<t + APPROVAL_SIG_TTL_MIN>>]

ForgedToken == <<[k |-> "nonce", of |-> 0], [k |-> "mac", of |-> 0]>>
OnePartToken == <<[k |-> "junk", of |-> 0]>>
TokensFor(name) == {sign_approval(name, 0).token, ForgedToken, OnePartToken, <<>>}

Mut_verify_approval(token, sig, expires_at, t) ==
    /\ expires_at # <<>>
    /\ Len(token) = 2
    /\ sig # <<>>

\* verify_approval(token, sig, expires_at) at time t
verify_approval(token, sig, expires_at, t) ==
    /\ expires_at # <<>>
    /\ ~(t > expires_at[1])
    /\ Len(token) = 2
    /\ sig # <<>>

NoApproval == [exists |-> FALSE, approved |-> FALSE, sig |-> <<>>, expires_at |-> <<>>,
               approvedWith |-> <<>>]

(***************************************************************************)
(* The run: state after start-up                                           *)
(***************************************************************************)
BrainTokens == 60      \* usage.tokens_in + usage.tokens_out the brain reports for a run
BudgetTokens == 50     \* budgets.max_tokens_per_run where a policy sets it

R_require == [when |-> <<TId("context", "env"), TEq, TLit("prod")>>,
              then |-> "require_approval", step |-> VNone]
R_block == [when |-> <<TId("context", "env"), TEq, TLit("prod")>>,
            then |-> "block", step |-> VNone]
R_allowDev == [when |-> <<TId("context", "env"), TEq, TLit("dev")>>,
               then |-> "allow", step |-> VNone]
R_blockStep1 == [when |-> <<TWord(TRUE)>>, then |-> "block", step |-> VStr(ToString(1))]
R_requireOr == [when |-> <<TId("context", "env"), TEq, TLit("prod"), TOr,
                           TLParen, TId("step", "tool"), TNeq, TLit("pagerduty.ack"), TRParen>>,
                then |-> "require_approval", step |-> VNone]

NoAllowlist == [r \in {} |-> {}]
Policy(al, pre, mt) == [tool_allowlist |-> al, preconditions |-> pre, max_tokens |-> mt]
EmptyPolicy == Policy(NoAllowlist, <<>>, <<>>)

\* the policies a run is executed under
EnginePolicies ==
    { Policy([r \in {"Admin"} |-> {"k8s.drain_node"}], <<R_require>>, <<BudgetTokens>>),
      Policy([r \in {"SRE"} |-> {"k8s.drain_node"}], <<>>, <<>>) }

Contexts == {EmptyDict, [k \in {"env"} |-> VStr("prod")]}

\* the step as the dict the evaluator sees
StepDict(name, decl) ==
    [k \in {"name", "tool"} |-> IF k = "name" THEN VStr(ToString(name)) ELSE VStr(decl.tool)]

\* the state before POST /runs, with the latest policy row one of policies
EngineInitWith(policies) ==
    /\ now = 0
    /\ runStatus = "none"
    /\ runMode = None
    /\ runbook = <<>>
    /\ reqContext = EmptyDict
    /\ policyDb \in policies
    /\ stepStatus = [n \in StepNames |-> "absent"]
    /\ stepError = [n \in StepNames |-> None]
    /\ approvals = [n \in StepNames |-> NoApproval]
    /\ runTokens = 0
    /\ pc = "idle"
    /\ cur = 0
    /\ ctx = <<>>
    /\ totals = 0
    /\ brainCache = <<>>
    /\ waitEnd = 0
    /\ invoked = [n \in StepNames |-> FALSE]
    /\ attempts = 0
    /\ compInvoked = [n \in StepNames |-> 0]
    /\ timedOut = {}
    /\ cancelSkipped = {}
    /\ invokeRes = <<>>
    /\ adapterCalls = {}

EngineInit == EngineInitWith(EnginePolicies)

(***************************************************************************)
(* gateway/app/routers/runs.py and approvals.py: the HTTP operations        *)
(***************************************************************************)
Tick ==
    /\ runStatus # "none"
    /\ now + TickMinutes <= MaxNow
    /\ now' = now + TickMinutes
    /\ UNCHANGED <<runStatus, runMode, runbook, reqContext, policyDb, stepStatus, stepError,
                   approvals, runTokens, pc, cur, ctx, totals, brainCache, waitEnd, invoked, attempts,
                   compInvoked, timedOut, cancelSkipped, invokeRes, adapterCalls>>

\* the approval row create_run inserts for a step that declares requires_approval
NewApproval(name, t) ==
    [exists |-> TRUE, approved |-> FALSE, sig |-> sign_approval(name, t).sig,
     expires_at |-> sign_approval(name, t).expires_at, approvedWith |-> <<>>]

\* POST /runs.  temporalUp: whether Client.connect / start_workflow succeed.
\* payload.context is not stored in run.metrics.
create_run(rb, mode, context, temporalUp) ==
    LET started == mode \in {"execute", "shadow"} /\ temporalUp
        inline == mode \in {"execute", "shadow"} /\ ~temporalUp
    IN  /\ runStatus = "none"
        /\ runStatus' = IF inline THEN "succeeded" ELSE "running"
        /\ runMode' = mode
        /\ runbook' = rb
        /\ reqContext' = context
        /\ stepStatus' = [n \in StepNames |-> IF inline THEN "succeeded" ELSE "pending"]
        /\ approvals' = [n \in StepNames |->
                            IF rb[n].requires_approval THEN NewApproval(n, now) ELSE NoApproval]
        /\ pc' = IF started THEN "load" ELSE "idle"
        /\ UNCHANGED <<now, policyDb, stepError, runTokens, cur, ctx, totals, brainCache,
                       waitEnd, invoked, attempts, compInvoked, timedOut, cancelSkipped, invokeRes, adapterCalls>>

\* POST /runs/{id}/cancel
cancel_run ==
    /\ runStatus \in {"running", "pending"}
    /\ runStatus' = "failed"
    /\ stepStatus' = [n \in StepNames |->
                        IF stepStatus[n] \in {"pending", "running"} THEN "skipped"
                        ELSE stepStatus[n]]
    /\ cancelSkipped' = {n \in StepNames : stepStatus[n] \in {"pending", "running"}}
    /\ UNCHANGED <<now, runMode, runbook, reqContext, policyDb, stepError, approvals,
                   runTokens, pc, cur, ctx, totals, brainCache, waitEnd, invoked, attempts,
                   compInvoked, timedOut, invokeRes, adapterCalls>>

\* POST /runs/{id}/resume: every pending step without an unapproved approval
\* is marked succeeded
resume_run ==
    /\ runStatus # "none"
    /\ stepStatus' = [n \in StepNames |->
                        IF stepStatus[n] = "pending"
                           /\ ~(approvals[n].exists /\ ~approvals[n].approved)
                        THEN "succeeded" ELSE stepStatus[n]]
    /\ UNCHANGED <<now, runStatus, runMode, runbook, reqContext, policyDb, stepError,
                   approvals, runTokens, pc, cur, ctx, totals, brainCache, waitEnd, invoked, attempts,
                   compInvoked, timedOut, cancelSkipped, invokeRes, adapterCalls>>

\* POST /runs/{id}/pause
pause_run ==
    /\ runStatus = "running"
    /\ runStatus' = "pending"
    /\ UNCHANGED <<now, runMode, runbook, reqContext, policyDb, stepStatus, stepError,
                   approvals, runTokens, pc, cur, ctx, totals, brainCache, waitEnd, invoked, attempts,
                   compInvoked, timedOut, cancelSkipped, invokeRes, adapterCalls>>

\* the checks of approve_approval on a row that is not approved yet: the
\* request passes when the row carries no signature, or the token is present
\* and verify_approval accepts it
ApproveAccepts(a, token, t) ==
    IF a.sig # <<>> /\ a.expires_at # <<>>
    THEN token # <<>> /\ verify_approval(token, a.sig, a.expires_at, t)
    ELSE TRUE

\* POST /approvals/{id}/approve with body {token}
approve_approval(name, token) ==
    /\ approvals[name].exists
    /\ ~approvals[name].approved
    /\ ApproveAccepts(approvals[name], token, now)
    /\ approvals' = [approvals EXCEPT ![name].approved = TRUE, ![name].approvedWith = token]
    /\ UNCHANGED <<now, runStatus, runMode, runbook, reqContext, policyDb, stepStatus,
                   stepError, runTokens, pc, cur, ctx, totals, brainCache, waitEnd, invoked, attempts,
                   compInvoked, timedOut, cancelSkipped, invokeRes, adapterCalls>>

\* POST /approvals/{id}/deny: the row is deleted, the step and the run are failed
deny_approval(name) ==
    /\ approvals[name].exists
    /\ ~approvals[name].approved
    /\ approvals' = [approvals EXCEPT ![name] = NoApproval]
    /\ stepStatus' = [stepStatus EXCEPT ![name] = "failed"]
    /\ stepError' = [stepError EXCEPT ![name] = "Approval denied"]
    /\ runStatus' = "failed"
    /\ UNCHANGED <<now, runMode, runbook, reqContext, policyDb, runTokens, pc, cur, ctx,
                   totals, brainCache, waitEnd, invoked, attempts, compInvoked, timedOut, cancelSkipped, invokeRes, adapterCalls>>

(***************************************************************************)
(* orchestrator: activities.py and workflows.py                            *)
(***************************************************************************)
\* record_step(run_id, step_name, fields): fields is [status, error], None for
\* a key that is not passed.  Whatever status the row has is overwritten.
record_step(name, fields) ==
    [status |-> IF fields.status # None THEN [stepStatus EXCEPT ![name] = fields.status]
                ELSE stepStatus,
     error |-> IF fields.error # None THEN [stepError EXCEPT ![name] = fields.error]
               ELSE stepError]

Fields(st, err) == [status |-> st, error |-> err]

\* load_context: the runbook, the latest policy, the approval rows of the run;
\* user_roles is the constant ["Admin"], context is run.metrics.get("context", {})
load_context ==
    [policy |-> policyDb,
     user_roles |-> {"Admin"},
     needs_approval |-> {n \in StepNames : approvals[n].exists},
     context |-> EmptyDict]

\* position after the loop body of step cur: the next step, or the end of run()
AfterStep == IF cur < NumSteps THEN "pending"
             ELSE IF runMode = "shadow" THEN "shadow" ELSE "done"
NextCur == IF cur < NumSteps THEN cur + 1 ELSE cur

EngLoad ==
    /\ pc = "load"
    /\ ctx' = <<load_context>>
    /\ cur' = 1
    /\ pc' = "pending"
    /\ UNCHANGED <<now, runStatus, runMode, runbook, reqContext, policyDb, stepStatus,
                   stepError, approvals, runTokens, totals, brainCache, waitEnd, invoked, attempts,
                   compInvoked, timedOut, cancelSkipped, invokeRes, adapterCalls>>

\* mutation of BudgetExceeded: the limit is applied one step's usage too late
Mut_BudgetExceeded ==
    ctx[1].policy.max_tokens # <<>> /\ totals >= ctx[1].policy.max_tokens[1] + BrainTokens

\* workflows.py 40-46, then the budget test of line 49
BudgetExceeded == ctx[1].policy.max_tokens # <<>> /\ totals >= ctx[1].policy.max_tokens[1]

EngRecordPending ==
    /\ pc = "pending"
    /\ stepStatus' = record_step(cur, Fields("pending", None)).status
    /\ stepError' = record_step(cur, Fields("pending", None)).error
    /\ pc' = IF BudgetExceeded THEN "budget_skip" ELSE "policy"
    /\ UNCHANGED <<now, runStatus, runMode, runbook, reqContext, policyDb, approvals,
                   runTokens, cur, ctx, totals, brainCache, waitEnd, invoked, attempts, compInvoked,
                   timedOut, cancelSkipped, invokeRes, adapterCalls>>

\* a record_step that ends the loop body (the `continue` paths and success)
EngRecordAndContinue(at, st, err) ==
    /\ pc = at
    /\ stepStatus' = record_step(cur, Fields(st, err)).status
    /\ stepError' = record_step(cur, Fields(st, err)).error
    /\ pc' = AfterStep
    /\ cur' = NextCur
    /\ invokeRes' = <<>>
    /\ UNCHANGED <<now, runStatus, runMode, runbook, reqContext, policyDb, approvals,
                   runTokens, ctx, totals, brainCache, waitEnd, invoked, attempts, compInvoked,
                   timedOut, cancelSkipped, adapterCalls>>

EngBudgetSkip == EngRecordAndContinue("budget_skip", "skipped", "budget")
EngPolicySkip == EngRecordAndContinue("policy_skip", "skipped", "policy")
EngApprovalSkip == EngRecordAndContinue("approval_skip", "skipped", "approval timeout")
EngBrainSkip == EngRecordAndContinue("brain_skip", "skipped", "brain")
\* mutation of EngRecordSucceeded: the loop moves on without recording the step
Mut_EngRecordSucceeded == EngRecordAndContinue("rec_succeeded", None, None)

\* workflows.py 162-172
EngRecordSucceeded == EngRecordAndContinue("rec_succeeded", "succeeded", None)

\* workflows.py 92: whether the step goes through wait_for_approval
NeedsWait(name) == runbook[name].requires_approval \/ name \in ctx[1].needs_approval

\* workflows.py 68-98: policy_validate, then the branch on its result
EngPolicyValidate(schemaErrors) ==
    LET val == policy_validate(StepDict(cur, runbook[cur]), ctx[1].policy,
                               ctx[1].user_roles, ctx[1].context, schemaErrors)
    IN  /\ pc = "policy"
        /\ pc' = IF ~val.ok THEN "policy_skip"
                 ELSE IF NeedsWait(cur) THEN "wait" ELSE "plan"
        /\ waitEnd' = IF val.ok /\ NeedsWait(cur) THEN now + WaitTimeoutMin ELSE waitEnd
        /\ UNCHANGED <<now, runStatus, runMode, runbook, reqContext, policyDb, stepStatus,
                       stepError, approvals, runTokens, cur, ctx, totals, brainCache,
                       invoked, attempts, compInvoked, timedOut, cancelSkipped, invokeRes, adapterCalls>>

\* mutation of EngWaitApproved: the poll returns True without looking at the row
Mut_EngWaitApproved ==
    /\ pc = "wait"
    /\ now < waitEnd
    /\ pc' = "plan"
    /\ UNCHANGED <<now, runStatus, runMode, runbook, reqContext, policyDb, stepStatus,
                   stepError, approvals, runTokens, cur, ctx, totals, brainCache, waitEnd,
                   invoked, attempts, compInvoked, timedOut, cancelSkipped, invokeRes, adapterCalls>>

\* wait_for_approval: one poll that finds the row approved before end_time
EngWaitApproved ==
    /\ pc = "wait"
    /\ now < waitEnd
    /\ cur \in ctx[1].needs_approval
    /\ approvals[cur].exists /\ approvals[cur].approved
    /\ pc' = "plan"
    /\ UNCHANGED <<now, runStatus, runMode, runbook, reqContext, policyDb, stepStatus,
                   stepError, approvals, runTokens, cur, ctx, totals, brainCache, waitEnd,
                   invoked, attempts, compInvoked, timedOut, cancelSkipped, invokeRes, adapterCalls>>

\* wait_for_approval: end_time passes, the activity returns False
EngWaitTimeout ==
    /\ pc = "wait"
    /\ now >= waitEnd
    /\ pc' = "approval_skip"
    /\ timedOut' = timedOut \cup {cur}
    /\ UNCHANGED <<now, runStatus, runMode, runbook, reqContext, policyDb, stepStatus,
                   stepError, approvals, runTokens, cur, ctx, totals, brainCache, waitEnd,
                   invoked, attempts, compInvoked, cancelSkipped, invokeRes, adapterCalls>>

\* what plan_and_review can return for the run: a decision per step and the
\* usage of the run; or the fallback {"planned": [], "usage": {}} when it raises
BrainResults ==
    {[decision |-> d, tokens |-> BrainTokens] : d \in [StepNames -> {"allow", "block"}]}
        \cup {[decision |-> [n \in StepNames |-> "allow"], tokens |-> 0]}

\* plan_step: the brain is called once per run and cached
EngPlan(result) ==
    LET cache == IF brainCache = <<>> THEN result ELSE brainCache[1] IN
    /\ pc = "plan"
    /\ brainCache' = <<cache>>
    /\ pc' = IF cache.decision[cur] = "block" THEN "brain_skip" ELSE "running"
    /\ UNCHANGED <<now, runStatus, runMode, runbook, reqContext, policyDb, stepStatus,
                   stepError, approvals, runTokens, cur, ctx, totals, waitEnd, invoked, attempts,
                   compInvoked, timedOut, cancelSkipped, invokeRes, adapterCalls>>

EngRecordRunning ==
    /\ pc = "running"
    /\ stepStatus' = record_step(cur, Fields("running", None)).status
    /\ stepError' = record_step(cur, Fields("running", None)).error
    /\ pc' = "invoke"
    /\ UNCHANGED <<now, runStatus, runMode, runbook, reqContext, policyDb, approvals,
                   runTokens, cur, ctx, totals, brainCache, waitEnd, invoked, attempts, compInvoked,
                   timedOut, cancelSkipped, invokeRes, adapterCalls>>

\* workflows.py 21: every mode but "execute" runs the adapters dry
wf_dry_run == runMode # "execute"

\* utils.make_idempotency_key: "<run_id>:<step_name>:<sha256 of the args>", as
\* its parts; the model has one run and the args of a step are fixed
make_idempotency_key(step_name) == <<"run", step_name, "args">>

\* activities.invoke_adapter: the call it hands to the adapter
invoke_adapter(tool, dryRun, idempotency_key) ==
    [name |-> tool, dryRun |-> dryRun, idempotencyKey |-> idempotency_key]

\* mutation of compensate: the step's own key is passed on unchanged
Mut_compensate(tool, dryRun, idempotency_key) ==
    [name |-> tool, dryRun |-> dryRun, idempotencyKey |-> idempotency_key]

\* activities.compensate: the call it hands to the adapter, key suffixed "-comp"
compensate(tool, dryRun, idempotency_key) ==
    [name |-> tool, dryRun |-> dryRun, idempotencyKey |-> idempotency_key \o <<"-comp">>]

\* comp.get("tool"): the tool a step's compensate block names
CompTool == "k8s.uncordon_node"

\* One attempt of invoke_adapter under RetryPolicy(maximum_attempts=4).
\* outcome: "ok" the adapter returns a result; "error" it returns a response
\* whose audit reports an error; "retryable" error_status 500/502/503, which
\* raises; "raise" any other exception.  A raised attempt is retried until the
\* attempts are used up, a returned response is the activity's result.
AdapterOutcomes == {"ok", "error", "retryable", "raise"}

\* mutation of EngInvoke: the first attempt that raises ends the activity
Mut_EngInvoke(outcome) ==
    /\ pc = "invoke"
    /\ invoked' = [invoked EXCEPT ![cur] = TRUE]
    /\ adapterCalls' = adapterCalls \cup
            {[step |-> cur, activity |-> "invoke_adapter",
              call |-> invoke_adapter(runbook[cur].tool, wf_dry_run, make_idempotency_key(cur))]}
    /\ IF outcome \in {"ok", "error"}
       THEN /\ totals' = totals + brainCache[1].tokens
            /\ attempts' = 0
            /\ invokeRes' = <<outcome>>
            /\ pc' = "totals"
       ELSE /\ totals' = totals
            /\ attempts' = 0
            /\ invokeRes' = invokeRes
            /\ pc' = "rec_failed"
    /\ UNCHANGED <<now, runStatus, runMode, runbook, reqContext, policyDb, stepStatus,
                   stepError, approvals, runTokens, cur, ctx, brainCache, waitEnd,
                   compInvoked, timedOut, cancelSkipped>>

EngInvoke(outcome) ==
    /\ pc = "invoke"
    /\ invoked' = [invoked EXCEPT ![cur] = TRUE]
    /\ adapterCalls' = adapterCalls \cup
            {[step |-> cur, activity |-> "invoke_adapter",
              call |-> invoke_adapter(runbook[cur].tool, wf_dry_run, make_idempotency_key(cur))]}
    /\ IF outcome \in {"ok", "error"}
       THEN /\ totals' = totals + brainCache[1].tokens
            /\ attempts' = 0
            /\ invokeRes' = <<outcome>>
            /\ pc' = "totals"
       ELSE /\ totals' = totals
            /\ attempts' = IF attempts + 1 < MaximumAttempts THEN attempts + 1 ELSE 0
            /\ invokeRes' = invokeRes
            /\ pc' = IF attempts + 1 < MaximumAttempts THEN "invoke" ELSE "rec_failed"
    /\ UNCHANGED <<now, runStatus, runMode, runbook, reqContext, policyDb, stepStatus,
                   stepError, approvals, runTokens, cur, ctx, brainCache, waitEnd,
                   compInvoked, timedOut, cancelSkipped>>

\* update_run_totals
EngUpdateTotals ==
    /\ pc = "totals"
    /\ runTokens' = totals
    /\ pc' = "rec_succeeded"
    /\ UNCHANGED <<now, runStatus, runMode, runbook, reqContext, policyDb, stepStatus,
                   stepError, approvals, cur, ctx, totals, brainCache, waitEnd, invoked, attempts,
                   compInvoked, timedOut, cancelSkipped, invokeRes, adapterCalls>>

\* mutation of EngRecordFailed: without a compensate block the exception is
\* swallowed and the loop goes on to the next step
Mut_EngRecordFailed ==
    /\ pc = "rec_failed"
    /\ stepStatus' = record_step(cur, Fields("failed", "msg")).status
    /\ stepError' = record_step(cur, Fields("failed", "msg")).error
    /\ pc' = IF runbook[cur].compensate THEN "compensate" ELSE AfterStep
    /\ cur' = IF runbook[cur].compensate THEN cur ELSE NextCur
    /\ UNCHANGED <<now, runStatus, runMode, runbook, reqContext, policyDb, approvals,
                   runTokens, ctx, totals, brainCache, waitEnd, invoked, attempts, compInvoked,
                   timedOut, cancelSkipped, invokeRes, adapterCalls>>

\* workflows.py 173-181
EngRecordFailed ==
    /\ pc = "rec_failed"
    /\ stepStatus' = record_step(cur, Fields("failed", "msg")).status
    /\ stepError' = record_step(cur, Fields("failed", "msg")).error
    /\ pc' = IF runbook[cur].compensate THEN "compensate" ELSE "raised"
    /\ UNCHANGED <<now, runStatus, runMode, runbook, reqContext, policyDb, approvals,
                   runTokens, cur, ctx, totals, brainCache, waitEnd, invoked, attempts, compInvoked,
                   timedOut, cancelSkipped, invokeRes, adapterCalls>>

\* the compensate activity
EngCompensate(ok) ==
    /\ pc = "compensate"
    /\ compInvoked' = [compInvoked EXCEPT ![cur] = @ + 1]
    /\ adapterCalls' = adapterCalls \cup
            {[step |-> cur, activity |-> "compensate",
              call |-> compensate(CompTool, wf_dry_run, make_idempotency_key(cur))]}
    /\ pc' = IF ok THEN "rec_compensated" ELSE "rec_comp_failed"
    /\ UNCHANGED <<now, runStatus, runMode, runbook, reqContext, policyDb, stepStatus,
                   stepError, approvals, runTokens, cur, ctx, totals, brainCache, waitEnd,
                   invoked, attempts, timedOut, cancelSkipped, invokeRes>>

\* workflows.py 191-213: the outcome of the compensation is recorded, then the
\* original exception is re-raised and the workflow ends
EngRecordCompensation(at, st, err) ==
    /\ pc = at
    /\ stepStatus' = record_step(cur, Fields(st, err)).status
    /\ stepError' = record_step(cur, Fields(st, err)).error
    /\ pc' = "raised"
    /\ UNCHANGED <<now, runStatus, runMode, runbook, reqContext, policyDb, approvals,
                   runTokens, cur, ctx, totals, brainCache, waitEnd, invoked, attempts, compInvoked,
                   timedOut, cancelSkipped, invokeRes, adapterCalls>>

EngRecordCompensated == EngRecordCompensation("rec_compensated", "compensated", None)
EngRecordCompFailed == EngRecordCompensation("rec_comp_failed", None, "compensation_failed")

\* compute_shadow, after the loop of a shadow run
EngShadow ==
    /\ pc = "shadow"
    /\ pc' = "done"
    /\ UNCHANGED <<now, runStatus, runMode, runbook, reqContext, policyDb, stepStatus,
                   stepError, approvals, runTokens, cur, ctx, totals, brainCache, waitEnd,
                   invoked, attempts, compInvoked, timedOut, cancelSkipped, invokeRes, adapterCalls>>

(***************************************************************************)
(* Spec: one run, the HTTP operations interleaved with its workflow        *)
(***************************************************************************)
PolicyIdle == pvIn = <<>> /\ pvOut = <<>>
AdapterIdle == calls = <<>> /\ node = <<>> /\ deploy = <<>> /\ github = <<>> /\ effects = <<>>
AuditIdle == auditLog = <<>> /\ writers = <<>> /\ verifyOut = <<>> /\ tampered = <<>>
TenantIdle == policyRows = <<>> /\ loaded = <<>>
StreamIdle ==
    rowStatus = <<>> /\ last_states = <<>> /\ events = <<>> /\ transitions = <<>>

CanaryIdle == runMetrics = <<>> /\ canaryPolicy = <<>> /\ canary_promoted = FALSE

RequestIdle == reqIn = <<>> /\ reqOut = <<>> /\ StreamIdle /\ CanaryIdle

Init == EngineInit /\ PolicyIdle /\ AdapterIdle /\ AuditIdle /\ TenantIdle /\ RequestIdle

\* a step of the run leaves the variables of the other specifications alone
EngineFrame == UNCHANGED <<policyVars, adapterVars, auditVars, tenantVars, requestVars>>

Next ==
    \/ Tick /\ EngineFrame
    \/ \E rb \in Runbooks, mode \in Modes, context \in Contexts, temporalUp \in BOOLEAN :
          create_run(rb, mode, context, temporalUp) /\ EngineFrame
    \/ cancel_run /\ EngineFrame
    \/ resume_run /\ EngineFrame
    \/ pause_run /\ EngineFrame
    \/ \E name \in StepNames : \E token \in TokensFor(name) :
          approve_approval(name, token) /\ EngineFrame
    \/ \E name \in StepNames : deny_approval(name) /\ EngineFrame
    \/ EngLoad /\ EngineFrame
    \/ EngRecordPending /\ EngineFrame
    \/ EngBudgetSkip /\ EngineFrame
    \/ \E schemaErrors \in {<<>>, <<"schema">>} : EngPolicyValidate(schemaErrors) /\ EngineFrame
    \/ EngPolicySkip /\ EngineFrame
    \/ EngWaitApproved /\ EngineFrame
    \/ EngWaitTimeout /\ EngineFrame
    \/ EngApprovalSkip /\ EngineFrame
    \/ \E result \in BrainResults : EngPlan(result) /\ EngineFrame
    \/ EngBrainSkip /\ EngineFrame
    \/ EngRecordRunning /\ EngineFrame
    \/ \E outcome \in AdapterOutcomes : EngInvoke(outcome) /\ EngineFrame
    \/ EngUpdateTotals /\ EngineFrame
    \/ EngRecordSucceeded /\ EngineFrame
    \/ EngRecordFailed /\ EngineFrame
    \/ \E ok \in BOOLEAN : EngCompensate(ok) /\ EngineFrame
    \/ EngRecordCompensated /\ EngineFrame
    \/ EngRecordCompFailed /\ EngineFrame
    \/ EngShadow /\ EngineFrame

Spec == Init /\ [][Next]_vars

\* The steps of the workflow and of its activities.  The Temporal worker runs
\* every activity the workflow has scheduled, and the clock goes on: SpecFair
\* is Spec with these taken whenever they stay possible.
WorkflowStep ==
    \/ EngLoad \/ EngRecordPending \/ EngBudgetSkip
    \/ \E schemaErrors \in {<<>>, <<"schema">>} : EngPolicyValidate(schemaErrors)
    \/ EngPolicySkip \/ EngWaitApproved \/ EngWaitTimeout \/ EngApprovalSkip
    \/ \E result \in BrainResults : EngPlan(result)
    \/ EngBrainSkip \/ EngRecordRunning
    \/ \E outcome \in AdapterOutcomes : EngInvoke(outcome)
    \/ EngUpdateTotals \/ EngRecordSucceeded \/ EngRecordFailed
    \/ \E ok \in BOOLEAN : EngCompensate(ok)
    \/ EngRecordCompensated \/ EngRecordCompFailed \/ EngShadow

SpecFair ==
    /\ Init /\ [][Next]_vars
    /\ WF_vars(WorkflowStep /\ EngineFrame)
    /\ WF_vars(Tick /\ EngineFrame)

(***************************************************************************)
(* SpecPolicy: policy_validate applied to one call's arguments             *)
(***************************************************************************)
PolicyAllowlists ==
    { NoAllowlist,
      [r \in {"Admin"} |-> {"k8s.drain_node"}],
      [r \in {"SRE"} |-> {"k8s.drain_node"}],
      [r \in {"SRE", "Viewer"} |-> IF r = "SRE" THEN {"pagerduty.ack"} ELSE {}] }

PolicyPreconditions ==
    { <<>>, <<R_require>>, <<R_block>>, <<R_allowDev, R_require>>, <<R_blockStep1, R_requireOr>> }

PolicyContexts == Contexts \cup {[k \in {"env"} |-> VStr("dev")]}

PolicyInputs ==
    [tool : Tools,
     name : {1},
     allowlist : PolicyAllowlists,
     user_roles : {{}, {"Admin"}, {"SRE"}, {"Admin", "Viewer"}},
     preconditions : PolicyPreconditions,
     context : PolicyContexts,
     schemaErrors : {<<>>, <<"schema">>}]

PolicyInit ==
    /\ pvIn \in {<<i>> : i \in PolicyInputs}
    /\ pvOut = <<>>

\* the call policy_validate(step, policy, user_roles, context) on the arguments in pvIn
PvValidate ==
    LET i == pvIn[1] IN
    /\ pvOut = <<>>
    /\ pvOut' = <<policy_validate(StepDict(i.name, [tool |-> i.tool]),
                                  Policy(i.allowlist, i.preconditions, <<>>),
                                  i.user_roles, i.context, i.schemaErrors)>>
    /\ UNCHANGED pvIn

EngineIdle ==
    /\ now = 0 /\ runStatus = "none" /\ runMode = None /\ runbook = <<>>
    /\ reqContext = EmptyDict /\ policyDb = EmptyPolicy
    /\ stepStatus = [n \in StepNames |-> "absent"]
    /\ stepError = [n \in StepNames |-> None]
    /\ approvals = [n \in StepNames |-> NoApproval]
    /\ runTokens = 0 /\ pc = "idle" /\ cur = 0 /\ ctx = <<>> /\ totals = 0
    /\ brainCache = <<>> /\ waitEnd = 0
    /\ invoked = [n \in StepNames |-> FALSE] /\ attempts = 0
    /\ compInvoked = [n \in StepNames |-> 0] /\ timedOut = {}
    /\ cancelSkipped = {} /\ invokeRes = <<>> /\ adapterCalls = {}

InitPolicy == PolicyInit /\ EngineIdle /\ AdapterIdle /\ AuditIdle /\ TenantIdle /\ RequestIdle

NextPolicy == PvValidate /\ UNCHANGED <<engineVars, adapterVars, auditVars, tenantVars, requestVars>>

SpecPolicy == InitPolicy /\ [][NextPolicy]_vars

Range(seq) == {seq[k] : k \in DOMAIN seq}

\* the allowlist gate as check_allowlist decides it
AllowlistGate(i) ==
    DOMAIN i.allowlist = {}
        \/ \E role \in i.user_roles : i.tool \in AllowlistGet(i.allowlist, role)

\* C4: policy_validate lets a step pass the allowlist gate exactly when the
\* allowlist is empty or one of the user's roles lists the tool; otherwise the
\* result has ok = false and the reason "tool not allowed for roles", whatever
\* the schema errors and the preconditions are.
C4_AllowlistGate ==
    pvOut # <<>> =>
        IF AllowlistGate(pvIn[1])
        THEN "tool not allowed for roles" \notin Range(pvOut[1].reasons)
        ELSE /\ ~pvOut[1].ok
             /\ "tool not allowed for roles" \in Range(pvOut[1].reasons)

\* the `then` of the first rule of the call in pvIn, in list order, whose step
\* is absent or the step's name and whose `when` evaluates truthy; None if no
\* rule is such
C27_FirstVerdict ==
    LET i == pvIn[1]
        step == StepDict(i.name, [tool |-> i.tool])
        applies(k) ==
            /\ i.preconditions[k].step \in {VNone, step["name"]}
            /\ EvalExpr(i.preconditions[k].when, i.context, step) = "True"
        matching == {k \in DOMAIN i.preconditions : applies(k)}
    IN  IF matching = {} THEN None
        ELSE i.preconditions[CHOOSE k \in matching : \A j \in matching : k <= j].then

\* C27: for every step and every context the precondition verdict of
\* policy_validate is that of the first rule whose step is absent or the step's
\* name and whose `when` is truthy: block gives ok = false with the reason
\* "precondition blocked", require_approval gives ok = true with
\* require_approval = true, allow (or no such rule) adds neither
C27_FirstRuleDecides ==
    pvOut # <<>> =>
        CASE C27_FirstVerdict = "block" ->
                /\ ~pvOut[1].ok
                /\ "precondition blocked" \in Range(pvOut[1].reasons)
          [] C27_FirstVerdict = "require_approval" ->
                pvOut[1].ok /\ pvOut[1].require_approval
          [] OTHER ->
                /\ ~pvOut[1].require_approval
                /\ "precondition blocked" \notin Range(pvOut[1].reasons)

(***************************************************************************)
(* SpecAdapter: two invocations of the real adapters against one node, one *)
(* deployment and one repository; every external call can succeed or fail  *)
(***************************************************************************)
CallIds == {"a", "b"}
AdapterTools == {"k8s.drain_node", "k8s.restart_deployment", "github.rollback_release"}
IdempotencyKeys == {"", "k1", "k2"}     \* "" is a call without idempotencyKey

FreeCall == [tool |-> "", key |-> "", dry_run |-> TRUE, pc |-> "free", result |-> ""]

AdapterInit ==
    /\ calls = [c \in CallIds |-> FreeCall]
    /\ node = [unschedulable |-> FALSE, annotation |-> "", pods |-> TRUE]
    /\ deploy = [annotation |-> "", restarts |-> 0]
    /\ github = [issues |-> 0, comments |-> 0, releases |-> 0]
    /\ effects = [c \in CallIds |-> {}]

Return(c, res) == [calls EXCEPT ![c].pc = "done", ![c].result = res]
Goto(c, at) == [calls EXCEPT ![c].pc = at]
Mutate(c, op) == [effects EXCEPT ![c] = @ \cup {op}]

\* k8s invoke / github invoke up to the tool's first external call.
\* clientOk: auth.get_client succeeds; token: GITHUB_TOKEN is set.
AdapterInvoke(c, tool, key, dry_run, clientOk, token) ==
    LET call == [FreeCall EXCEPT !.tool = tool, !.key = key, !.dry_run = dry_run] IN
    /\ calls[c].pc = "free"
    /\ calls' = [calls EXCEPT ![c] =
          IF tool = "github.rollback_release"
          THEN IF dry_run \/ ~token
               THEN [call EXCEPT !.pc = "done", !.result = "simulated"]
               ELSE [call EXCEPT !.pc = "rollback_search"]
          ELSE IF ~clientOk THEN [call EXCEPT !.pc = "done", !.result = "error"]
          ELSE IF tool = "k8s.drain_node" THEN [call EXCEPT !.pc = "drain_check"]
          ELSE [call EXCEPT !.pc = "restart_check"]]
    /\ UNCHANGED <<node, deploy, github, effects>>

\* _drain_node: read_node and assert_env_allowed
DrainRuntimeCheck(c, ok) ==
    /\ calls[c].pc = "drain_check"
    /\ calls' = IF ~ok /\ ~calls[c].dry_run THEN Return(c, "error")
                ELSE IF calls[c].dry_run THEN Goto(c, "drain_dry_list")
                ELSE Goto(c, "drain_idem")
    /\ UNCHANGED <<node, deploy, github, effects>>

\* _drain_node, dry_run: list the pods; when the listing raises, the except
\* clause passes and control reaches the real execution below it
DrainDryList(c, ok) ==
    /\ calls[c].pc = "drain_dry_list"
    /\ calls' = IF ok THEN Return(c, "simulated") ELSE Goto(c, "drain_idem")
    /\ UNCHANGED <<node, deploy, github, effects>>

\* _drain_node: the idempotency annotation is read; a failed read is ignored
DrainIdempotency(c, ok) ==
    /\ calls[c].pc = "drain_idem"
    /\ calls' = IF calls[c].key # "" /\ ok /\ node.annotation = calls[c].key
                THEN Return(c, "idempotent") ELSE Goto(c, "drain_cordon")
    /\ UNCHANGED <<node, deploy, github, effects>>

\* _drain_node: patch_node unschedulable
DrainCordon(c, ok) ==
    /\ calls[c].pc = "drain_cordon"
    /\ IF ok
       THEN /\ node' = [node EXCEPT !.unschedulable = TRUE]
            /\ effects' = Mutate(c, "patch_node")
            /\ calls' = Goto(c, "drain_evict")
       ELSE /\ calls' = Return(c, "error")
            /\ UNCHANGED <<node, effects>>
    /\ UNCHANGED <<deploy, github>>

\* _drain_node: list the pods of the node and delete them; failures are ignored
DrainEvict(c, ok) ==
    /\ calls[c].pc = "drain_evict"
    /\ IF ok /\ node.pods
       THEN /\ node' = [node EXCEPT !.pods = FALSE]
            /\ effects' = Mutate(c, "delete_namespaced_pod")
       ELSE UNCHANGED <<node, effects>>
    /\ calls' = Goto(c, "drain_annotate")
    /\ UNCHANGED <<deploy, github>>

\* _drain_node: the idempotency annotation is written last; a failure is ignored
DrainAnnotate(c, ok) ==
    /\ calls[c].pc = "drain_annotate"
    /\ IF calls[c].key # "" /\ ok
       THEN /\ node' = [node EXCEPT !.annotation = calls[c].key]
            /\ effects' = Mutate(c, "patch_node_annotation")
       ELSE UNCHANGED <<node, effects>>
    /\ calls' = Return(c, "ok")
    /\ UNCHANGED <<deploy, github>>

\* _restart_deployment: assert_namespace_allowed, then the deployment is read
\* and assert_env_allowed checked
RestartRuntimeCheck(c, nsAllowed, ok) ==
    /\ calls[c].pc = "restart_check"
    /\ calls' = IF ~nsAllowed THEN Return(c, "error")
                ELSE IF ~ok /\ ~calls[c].dry_run THEN Return(c, "error")
                ELSE IF calls[c].dry_run THEN Return(c, "simulated")
                ELSE Goto(c, "restart_idem")
    /\ UNCHANGED <<node, deploy, github, effects>>

RestartIdempotency(c, ok) ==
    /\ calls[c].pc = "restart_idem"
    /\ calls' = IF calls[c].key # "" /\ ok /\ deploy.annotation = calls[c].key
                THEN Return(c, "idempotent") ELSE Goto(c, "restart_patch")
    /\ UNCHANGED <<node, deploy, github, effects>>

\* _restart_deployment: one patch sets restartedAt and the idempotency annotation
RestartPatch(c, ok) ==
    /\ calls[c].pc = "restart_patch"
    /\ IF ok
       THEN /\ deploy' = [annotation |-> calls[c].key, restarts |-> deploy.restarts + 1]
            /\ effects' = Mutate(c, "patch_namespaced_deployment")
            /\ calls' = Return(c, "ok")
       ELSE /\ calls' = Return(c, "error")
            /\ UNCHANGED <<deploy, effects>>
    /\ UNCHANGED <<node, github>>

\* _rollback_release: search for the rollback-log issue; a failure is ignored
RollbackSearch(c, ok) ==
    /\ calls[c].pc = "rollback_search"
    /\ calls' = IF ok /\ github.issues > 0 THEN Goto(c, "rollback_comment")
                ELSE Goto(c, "rollback_create")
    /\ UNCHANGED <<node, deploy, github, effects>>

\* _rollback_release: one POST; raise_for_status ends the call with an error
RollbackPost(c, at, field, op, then, ok) ==
    /\ calls[c].pc = at
    /\ IF ok
       THEN /\ github' = [github EXCEPT ![field] = @ + 1]
            /\ effects' = Mutate(c, op)
            /\ calls' = IF then = "done" THEN Return(c, "ok") ELSE Goto(c, then)
       ELSE /\ calls' = Return(c, "error")
            /\ UNCHANGED <<github, effects>>
    /\ UNCHANGED <<node, deploy>>

RollbackCreateIssue(c, ok) ==
    RollbackPost(c, "rollback_create", "issues", "POST issues", "rollback_comment", ok)
RollbackComment(c, ok) ==
    RollbackPost(c, "rollback_comment", "comments", "POST comments", "rollback_release", ok)
RollbackRelease(c, ok) ==
    RollbackPost(c, "rollback_release", "releases", "POST releases", "done", ok)

InitAdapter == AdapterInit /\ EngineIdle /\ PolicyIdle /\ AuditIdle /\ TenantIdle /\ RequestIdle

AdapterFrame == UNCHANGED <<engineVars, policyVars, auditVars, tenantVars, requestVars>>

NextAdapter ==
    \/ \E c \in CallIds, tool \in AdapterTools, key \in IdempotencyKeys,
          dry_run \in BOOLEAN, clientOk \in BOOLEAN, token \in BOOLEAN :
          AdapterInvoke(c, tool, key, dry_run, clientOk, token) /\ AdapterFrame
    \/ \E c \in CallIds, ok \in BOOLEAN : DrainRuntimeCheck(c, ok) /\ AdapterFrame
    \/ \E c \in CallIds, ok \in BOOLEAN : DrainDryList(c, ok) /\ AdapterFrame
    \/ \E c \in CallIds, ok \in BOOLEAN : DrainIdempotency(c, ok) /\ AdapterFrame
    \/ \E c \in CallIds, ok \in BOOLEAN : DrainCordon(c, ok) /\ AdapterFrame
    \/ \E c \in CallIds, ok \in BOOLEAN : DrainEvict(c, ok) /\ AdapterFrame
    \/ \E c \in CallIds, ok \in BOOLEAN : DrainAnnotate(c, ok) /\ AdapterFrame
    \/ \E c \in CallIds, nsAllowed \in BOOLEAN, ok \in BOOLEAN :
          RestartRuntimeCheck(c, nsAllowed, ok) /\ AdapterFrame
    \/ \E c \in CallIds, ok \in BOOLEAN : RestartIdempotency(c, ok) /\ AdapterFrame
    \/ \E c \in CallIds, ok \in BOOLEAN : RestartPatch(c, ok) /\ AdapterFrame
    \/ \E c \in CallIds, ok \in BOOLEAN : RollbackSearch(c, ok) /\ AdapterFrame
    \/ \E c \in CallIds, ok \in BOOLEAN : RollbackCreateIssue(c, ok) /\ AdapterFrame
    \/ \E c \in CallIds, ok \in BOOLEAN : RollbackComment(c, ok) /\ AdapterFrame
    \/ \E c \in CallIds, ok \in BOOLEAN : RollbackRelease(c, ok) /\ AdapterFrame

SpecAdapter == InitAdapter /\ [][NextAdapter]_vars

\* C6: an invocation with dry_run = true makes no mutating external call,
\* whichever tool it is and however its read-only lookups and runtime checks end.
C6_DryRunNoMutation ==
    \A c \in CallIds : calls[c].pc # "free" /\ calls[c].dry_run => effects[c] = {}

\* C7: two invocations of one side-effecting tool with the same idempotency key
\* and dry_run = false, one after the other or overlapping, do not both apply
\* the effect.
C7_KeyAppliedOnce ==
    \A c1, c2 \in CallIds :
        (/\ c1 # c2
         /\ calls[c1].pc # "free" /\ calls[c2].pc # "free"
         /\ calls[c1].tool = calls[c2].tool
         /\ calls[c1].key = calls[c2].key /\ calls[c1].key # ""
         /\ ~calls[c1].dry_run /\ ~calls[c2].dry_run)
            => effects[c1] \cap effects[c2] = {}

(***************************************************************************)
(* The audit chain: gateway/app/audit.py, security.py, routers/audit.py    *)
(***************************************************************************)
MaxLog == 4            \* entries in audit_logs

NoTenant == ""         \* tenant_id None
TenantIds == {NoTenant, "t1", "t2"}
Payloads == {"p1", "p2"}
Writers == {"w1", "w2"}

\* the record write_audit and verify_audit_chain hash: the fields of the entry
\* other than ts, prev_hash and hash
Record(tenant, payload) == [tenant_id |-> tenant, payload |-> payload]

\* hmac_hash(prev_hash, record): HMAC-SHA256 under AUDIT_HMAC_SECRET of
\* prev_hash + canonical json when prev_hash is truthy, of the json alone
\* otherwise; prev_hash is <<>> for None.  The MAC is kept as the term it is
\* computed from, so two hashes are equal exactly when their inputs are.
hmac_hash(prev_hash, record) ==
    [secret |-> "AUDIT_HMAC_SECRET",
     data |-> IF prev_hash # <<>> THEN <<prev_hash[1], record>> ELSE <<record>>]

\* the rows of one tenant in ts order (auditLog is kept in ts order)
TenantLogs(tenant) == SelectSeq(auditLog, LAMBDA e : e.tenant_id = tenant)

\* mutation of LatestHash: the latest row of the table, whatever its tenant
Mut_LatestHash(tenant) ==
    IF tenant # NoTenant /\ auditLog # <<>>
    THEN <<auditLog[Len(auditLog)].hash>> ELSE <<>>

\* write_audit 23-33: the hash of the tenant's latest row, None without a
\* tenant id or without rows
LatestHash(tenant) ==
    IF tenant # NoTenant /\ TenantLogs(tenant) # <<>>
    THEN <<TenantLogs(tenant)[Len(TenantLogs(tenant))].hash>> ELSE <<>>

\* write_audit 35-56: the row built from the hash that was read
AuditEntry(tenant, payload, prev_hash) ==
    [tenant_id |-> tenant, payload |-> payload, prev_hash |-> prev_hash,
     hash |-> hmac_hash(prev_hash, Record(tenant, payload))]

\* verify_audit_chain's loop over logs from index idx (0-based) with prev_hash
RECURSIVE VerifyFrom(_, _, _)
VerifyFrom(logs, idx, prev_hash) ==
    IF idx >= Len(logs) THEN [ok |-> TRUE, broken_at |-> <<>>]
    ELSE LET log == logs[idx + 1]
             expected_hash == hmac_hash(prev_hash, Record(log.tenant_id, log.payload))
         IN  IF log.hash # expected_hash THEN [ok |-> FALSE, broken_at |-> <<idx>>]
             ELSE VerifyFrom(logs, idx + 1, <<log.hash>>)

\* GET /audit/verify: the tenant's rows when tenant_id is given, every row otherwise
verify_audit_chain(tenant) ==
    VerifyFrom(IF tenant # NoTenant THEN TenantLogs(tenant) ELSE auditLog, 0, <<>>)

IdleWriter == [pc |-> "idle", tenant_id |-> NoTenant, payload |-> "p1", prev_hash |-> <<>>]

AuditInit ==
    /\ auditLog = <<>>
    /\ writers = [w \in Writers |-> IdleWriter]
    /\ verifyOut = <<>>
    /\ tampered = <<>>

InFlight == Cardinality({w \in Writers : writers[w].pc = "read"})

\* write_audit up to the SELECT of the latest row
WriteAuditRead(w, tenant, payload) ==
    /\ writers[w].pc = "idle"
    /\ Len(auditLog) + InFlight < MaxLog
    /\ writers' = [writers EXCEPT ![w] = [pc |-> "read", tenant_id |-> tenant,
                                          payload |-> payload,
                                          prev_hash |-> LatestHash(tenant)]]
    /\ UNCHANGED <<auditLog, verifyOut, tampered>>

\* write_audit from the hash computation to the commit
WriteAuditCommit(w) ==
    /\ writers[w].pc = "read"
    /\ auditLog' = Append(auditLog, AuditEntry(writers[w].tenant_id, writers[w].payload,
                                               writers[w].prev_hash))
    /\ writers' = [writers EXCEPT ![w] = IdleWriter]
    /\ UNCHANGED <<verifyOut, tampered>>

\* the payload of one stored row is altered in the database
Tamper(k, payload) ==
    /\ tampered = <<>>
    /\ k \in 1..Len(auditLog)
    /\ payload # auditLog[k].payload
    /\ auditLog' = [auditLog EXCEPT ![k].payload = payload]
    /\ tampered' = <<[tenant_id |-> auditLog[k].tenant_id,
                      idx |-> Len(SelectSeq(SubSeq(auditLog, 1, k - 1),
                                  LAMBDA e : e.tenant_id = auditLog[k].tenant_id))]>>
    /\ UNCHANGED <<writers, verifyOut>>

VerifyAudit(tenant) ==
    /\ verifyOut' = <<[tenant_id |-> tenant, result |-> verify_audit_chain(tenant)]>>
    /\ UNCHANGED <<auditLog, writers, tampered>>

InitAudit == AuditInit /\ EngineIdle /\ PolicyIdle /\ AdapterIdle /\ TenantIdle /\ RequestIdle

AuditFrame == UNCHANGED <<engineVars, policyVars, adapterVars, tenantVars, requestVars>>

NextAudit ==
    \/ \E w \in Writers, tenant \in TenantIds, payload \in Payloads :
          WriteAuditRead(w, tenant, payload) /\ AuditFrame
    \/ \E w \in Writers : WriteAuditCommit(w) /\ AuditFrame
    \/ \E k \in 1..MaxLog, payload \in Payloads : Tamper(k, payload) /\ AuditFrame
    \/ \E tenant \in TenantIds : VerifyAudit(tenant) /\ AuditFrame

SpecAudit == InitAudit /\ [][NextAudit]_vars

\* SpecAuditSeq: write_audit calls that do not overlap, each one a single step
write_audit(tenant, payload) ==
    /\ Len(auditLog) < MaxLog
    /\ auditLog' = Append(auditLog, AuditEntry(tenant, payload, LatestHash(tenant)))
    /\ UNCHANGED <<writers, verifyOut, tampered>>

NextAuditSeq ==
    \E tenant \in TenantIds, payload \in Payloads : write_audit(tenant, payload) /\ AuditFrame

SpecAuditSeq == InitAudit /\ [][NextAuditSeq]_vars

\* C8: overlapping write_audit calls of one tenant never read the same latest
\* entry: no two entries of a tenant carry the same prev_hash.
C8_NoSharedPrevHash ==
    \A t \in TenantIds \ {NoTenant} :
        \A i, j \in 1..Len(TenantLogs(t)) :
            i # j => TenantLogs(t)[i].prev_hash # TenantLogs(t)[j].prev_hash

\* C9: after any sequence of write_audit calls that do not overlap, in every
\* tenant's entries the first has prev_hash null, every later one has the hash
\* of the entry just before it as prev_hash, and every hash is the HMAC of
\* prev_hash followed by the canonical record.
C9_ChainLinked ==
    \A t \in TenantIds \ {NoTenant} :
        \A k \in 1..Len(TenantLogs(t)) :
            /\ TenantLogs(t)[k].prev_hash =
                  (IF k = 1 THEN <<>> ELSE <<TenantLogs(t)[k - 1].hash>>)
            /\ TenantLogs(t)[k].hash =
                  hmac_hash(TenantLogs(t)[k].prev_hash,
                            Record(t, TenantLogs(t)[k].payload))

\* two tenants' entries interleaved, one of them with three entries
C9_Witness ==
    \E t \in TenantIds \ {NoTenant} :
        /\ Len(TenantLogs(t)) = 3
        /\ auditLog[2].tenant_id \notin {t, NoTenant}

\* C38: for an audit log produced only by write_audit calls and never modified,
\* verify returns ok = true for every tenant's chain and for the call without
\* tenant_id, also when the log holds entries of several tenants or entries with a
\* null tenant_id.
C38_UnmodifiedLogVerifies ==
    \A tenant \in TenantIds : verify_audit_chain(tenant).ok

\* C10: once the payload of one stored entry of a tenant has been altered,
\* verify for that tenant returns ok = false with broken_at the position of the
\* altered entry.
C10_VerifyFindsAltered ==
    [][(/\ verifyOut' # verifyOut
        /\ tampered # <<>>
        /\ verifyOut'[1].tenant_id = tampered[1].tenant_id
        /\ tampered[1].tenant_id # NoTenant)
          => /\ ~verifyOut'[1].result.ok
             /\ verifyOut'[1].result.broken_at = <<tampered[1].idx>>]_vars

(***************************************************************************)
(* Claims checked under Spec                                               *)
(***************************************************************************)
\* C1: whatever the interleaving of the engine's step recording with cancel,
\* deny, resume and run creation, no step goes from a terminal status
\* (succeeded, failed, skipped, compensated) back to pending or running.
C1_NoTerminalRegress ==
    [][\A n \in StepNames :
          stepStatus[n] \in Terminal => stepStatus'[n] \notin {"pending", "running"}]_vars

\* C2: the adapter is invoked for a step that declares requires_approval only
\* once its approval row is approved; a step whose wait ended without approval
\* never has the adapter invoked, and the engine's next step for it is to
\* record it skipped with the approval-timeout error and go on to the next step.
C2_InvokedOnlyApproved ==
    \A n \in StepNames :
        /\ (runStatus # "none" /\ runbook[n].requires_approval /\ invoked[n])
              => (approvals[n].exists /\ approvals[n].approved)
        /\ n \in timedOut => ~invoked[n]

C2_TimeoutRecordsSkipped ==
    (pc = "approval_skip" /\ pc' # pc)
        => /\ stepStatus'[cur] = "skipped"
           /\ stepError'[cur] = "approval timeout"
           /\ invoked' = invoked
           /\ pc' \in {"pending", "shadow", "done"}

C2_ApprovalGate == []C2_InvokedOnlyApproved /\ [][C2_TimeoutRecordsSkipped]_vars

\* a run where one step timed out and was recorded skipped without the adapter,
\* and another step that requires approval was approved and reached the adapter
C2_Witness ==
    \E n, m \in StepNames :
        /\ n \in timedOut /\ stepStatus[n] = "skipped" /\ stepError[n] = "approval timeout"
        /\ ~invoked[n]
        /\ runbook[m].requires_approval /\ invoked[m] /\ approvals[m].approved

\* C3: when the policy evaluator's verdict for a step is require_approval (a
\* matching precondition with then=require_approval, evaluated on the context
\* the run was created with), an approval exists for the step and the adapter
\* is not invoked for it before that approval is approved.
C3_RequireApprovalGated ==
    \A n \in StepNames :
        (/\ runStatus # "none"
         /\ decide(policyDb.preconditions, StepDict(n, runbook[n]), reqContext)
                = "require_approval"
         /\ invoked[n])
            => (approvals[n].exists /\ approvals[n].approved)

\* C5: an approval is approved only by a request whose token is the token
\* signed for that approval.
C5_ApprovedOnlySignedToken ==
    \A n \in StepNames :
        approvals[n].approved => approvals[n].approvedWith = sign_approval(n, 0).token

\* the approval of step n is pending and its sig_expires_at has passed
C24_Expired(n) ==
    /\ approvals[n].exists /\ ~approvals[n].approved
    /\ approvals[n].sig # <<>> /\ approvals[n].expires_at # <<>>
    /\ now > approvals[n].expires_at[1]

C24_ApproveRejected ==
    \A n \in StepNames : \A token \in TokensFor(n) :
        C24_Expired(n) => ~ENABLED approve_approval(n, token)

C24_StaysUnapproved ==
    \A n \in StepNames : C24_Expired(n) => ~approvals'[n].approved

C26_BrainRaised == brainCache # <<>> /\ brainCache[1].tokens = 0

\* C26: if a brain output violates its JSON schema, the run fails and no
\* step is executed on the basis of a substitute plan
C26_NoSubstitutePlan ==
    C26_BrainRaised =>
        /\ \A n \in StepNames : ~invoked[n]
        /\ runStatus # "succeeded"

\* C30: a step has the status succeeded only if the workflow invoked the
\* step's adapter; run creation, resume, cancel and deny record succeeded
\* for no step that was not executed
C30_SucceededWasInvoked ==
    \A n \in StepNames : stepStatus[n] = "succeeded" => invoked[n]

\* while the adapter call of a step is retried fewer than 4 attempts have
\* been made, and all invoke_adapter calls of a step carry one idempotency key
C32_AttemptsBounded ==
    /\ attempts < MaximumAttempts
    /\ \A c1, c2 \in adapterCalls :
         (c1.step = c2.step /\ c1.activity = "invoke_adapter" /\ c2.activity = "invoke_adapter")
            => c1.call.idempotencyKey = c2.call.idempotencyKey

\* a step of the workflow at the adapter call: an attempt that raises before
\* the 4th is followed by another attempt, and the workflow comes to record
\* the step failed only from the 4th attempt
C32_RetryStep ==
    /\ (pc = "invoke" /\ <<pc, attempts>>' # <<pc, attempts>> /\ pc' # "totals")
        => IF attempts + 1 < MaximumAttempts
           THEN pc' = "invoke" /\ attempts' = attempts + 1 /\ cur' = cur
           ELSE pc' = "rec_failed"
    /\ (pc # "rec_failed" /\ pc' = "rec_failed")
        => (pc = "invoke" /\ attempts = MaximumAttempts - 1)

C33_ErrorKeys(error) == IF error = None THEN {} ELSE {error}

\* C33: when the compensation call of a failed step fails, the step stays
\* failed and its stored error holds both the original adapter error and the
\* compensation error
C33_BothErrorsKept ==
    [][(pc = "rec_comp_failed" /\ pc' # pc)
        => /\ stepStatus'[cur] = "failed"
           /\ {"msg", "compensation_failed"} \subseteq C33_ErrorKeys(stepError'[cur])]_vars

\* SpecUsage: the run under a policy that allows Admin the tool, with the token
\* budget of EnginePolicies or with no budget at all
UsagePolicies ==
    { Policy([r \in {"Admin"} |-> {"k8s.drain_node"}], <<R_require>>, <<BudgetTokens>>),
      Policy([r \in {"Admin"} |-> {"k8s.drain_node"}], <<>>, <<>>) }

InitUsage ==
    /\ EngineInitWith(UsagePolicies)
    /\ PolicyIdle /\ AdapterIdle /\ AuditIdle /\ TenantIdle /\ RequestIdle

\* the run's workflow beside the clock and the approve requests; the run is not
\* cancelled, paused, resumed or denied
NextUsage ==
    \/ Tick /\ EngineFrame
    \/ \E rb \in Runbooks, mode \in Modes, context \in Contexts, temporalUp \in BOOLEAN :
          create_run(rb, mode, context, temporalUp) /\ EngineFrame
    \/ \E name \in StepNames : \E token \in TokensFor(name) :
          approve_approval(name, token) /\ EngineFrame
    \/ WorkflowStep /\ EngineFrame

SpecUsage == InitUsage /\ [][NextUsage]_vars

\* the tokens_in + tokens_out the brain reported for the run (nothing before the
\* brain was called)
C39_BrainUsage == IF brainCache = <<>> THEN 0 ELSE brainCache[1].tokens

\* C39: the tokens recorded in run.metrics never exceed the usage the brain
\* reported for the run: the per-run usage is added to the run totals once,
\* however many steps execute.
C39_UsageCountedOnce == runTokens <= C39_BrainUsage

\* C11: a step that cancel_run set to skipped while its adapter call was in
\* flight stays skipped, and the run stays failed, when the workflow comes to
\* record the result of that call
C11_CancelDiscardsResult ==
    [][(/\ pc = "rec_succeeded" /\ pc' # pc
        /\ cur \in cancelSkipped /\ stepStatus[cur] = "skipped")
       => (stepStatus'[cur] = "skipped" /\ runStatus' = "failed")]_vars

\* C12: once deny_approval has deleted the approval of a step, the step is
\* failed with the error "Approval denied" and the run is failed, and both stay
\* so while the workflow goes on
C12_DenyIsFinal ==
    \A n \in StepNames :
        (runStatus # "none" /\ runbook[n].requires_approval /\ ~approvals[n].exists)
            => /\ stepStatus[n] = "failed"
               /\ stepError[n] = "Approval denied"
               /\ runStatus = "failed"

\* a step failed terminally: the workflow recorded the failure of its adapter
\* call after the last attempt (the error of that record, or the one the failed
\* compensation put in its place)
C13_FailedTerminally(n) == stepError[n] \in {"msg", "compensation_failed"}

C13_StaysAtFailedStep ==
    \A n \in StepNames :
        C13_FailedTerminally(n)
            => /\ cur = n
               /\ pc \in {"compensate", "rec_compensated", "rec_comp_failed", "raised"}
               /\ \A m \in StepNames :
                    m > n => /\ ~invoked[m] /\ compInvoked[m] = 0
                             /\ stepStatus[m] \notin {"running", "compensated"}

C13_LaterStatusKept ==
    \A n, m \in StepNames :
        (C13_FailedTerminally(n) /\ m > n /\ <<pc, cur, attempts>>' # <<pc, cur, attempts>>)
            => stepStatus'[m] = stepStatus[m]

\* C13: once a step has failed terminally, the workflow stays at that step on
\* its way to re-raising: no later step has its adapter or its compensation
\* invoked, none is recorded running or compensated, and no step of the
\* workflow changes the status of a later step.
C13_NoLaterStep == []C13_StaysAtFailedStep /\ [][C13_LaterStatusKept]_vars

\* a run whose first step failed terminally and whose workflow has ended, the
\* second step never attempted
C13_Witness ==
    /\ pc = "raised" /\ cur = 1
    /\ stepStatus[1] = "failed" /\ stepError[1] = "msg" /\ invoked[1]
    /\ stepStatus[2] = "pending" /\ ~invoked[2]

\* C14: when the workflow has ended and one of its steps failed terminally or
\* was skipped by the policy gate or by an approval timeout, the run's status
\* is failed
C14_RunFailedAtEnd ==
    (/\ pc \in {"done", "raised"}
     /\ \E n \in StepNames :
          stepError[n] \in {"msg", "compensation_failed", "policy", "approval timeout"})
        => runStatus = "failed"

\* C15: when invoke_adapter ended with a response that reports an error, the
\* record the workflow then makes for the step is failed or compensated, never
\* succeeded
C15_ErrorNeverSucceeded ==
    [][(pc = "rec_succeeded" /\ pc' # pc /\ invokeRes = <<"error">>)
       => stepStatus'[cur] \in {"failed", "compensated"}]_vars

\* the compensation calls made so far are those of steps that declare
\* compensate and failed terminally, each made with the compensation tool and
\* with the key of the step's own adapter call followed by "-comp"
C16_CompensationCalls ==
    \A n \in StepNames :
        LET comps == {c \in adapterCalls : c.step = n /\ c.activity = "compensate"}
            own == {c \in adapterCalls : c.step = n /\ c.activity = "invoke_adapter"}
        IN  /\ (compInvoked[n] > 0) = (comps # {})
            /\ comps # {}
                => /\ runbook[n].compensate
                   /\ stepError[n] \in {"msg", "compensation_failed"}
                   /\ \A c \in comps : \E o \in own :
                        /\ c.call.name = CompTool
                        /\ c.call.idempotencyKey = o.call.idempotencyKey \o <<"-comp">>
                        /\ c.call.dryRun = o.call.dryRun

\* at the end of the workflow a step whose compensation succeeded is compensated
C16_CompensatedAtEnd ==
    (pc = "raised" /\ runbook[cur].compensate /\ stepError[cur] = "msg")
        => stepStatus[cur] = "compensated"

\* the workflow's steps after a terminal failure of a step that declares
\* compensate: the compensation is invoked, and its success is recorded as
\* status compensated
C16_CompensationSteps ==
    (<<pc, cur, attempts>>' # <<pc, cur, attempts>>)
        => /\ (pc = "rec_failed" /\ runbook[cur].compensate) => pc' = "compensate"
           /\ pc = "compensate"
                => /\ compInvoked'[cur] = compInvoked[cur] + 1
                   /\ pc' \in {"rec_compensated", "rec_comp_failed"}
           /\ pc = "rec_compensated"
                => stepStatus'[cur] = "compensated" /\ pc' = "raised"

\* C16: when a step's adapter call fails terminally and the step declares
\* compensate, the workflow invokes the compensation tool with the step's
\* idempotency key followed by "-comp", and if that call succeeds the step's
\* final status is compensated.
C16_Compensation ==
    /\ [](C16_CompensationCalls /\ C16_CompensatedAtEnd)
    /\ [][C16_CompensationSteps]_vars

\* a step failed after its last attempt, its compensation ran with the
\* suffixed key and succeeded, and the workflow has ended
C16_Witness ==
    /\ pc = "raised" /\ cur = 1 /\ stepStatus[1] = "compensated"
    /\ \E c \in adapterCalls :
         /\ c.step = 1 /\ c.activity = "compensate"
         /\ c.call.idempotencyKey = <<"run", 1, "args", "-comp">>

\* a step that carries the budget error is skipped and never had its adapter
\* invoked, and neither had any step declared after it
C17_BudgetSkipped ==
    \A n \in StepNames :
        stepError[n] = "budget"
            => /\ stepStatus[n] = "skipped"
               /\ \A m \in StepNames : m >= n => ~invoked[m]

\* the workflow's steps at the budget gate: a step reached with
\* max_tokens_per_run set and the run's tokens at or over it goes to the skip
\* branch, which records skipped with the budget error and calls no adapter;
\* and no step of the program lowers the totals
C17_BudgetSteps ==
    /\ totals' >= totals
    /\ (<<pc, cur, attempts>>' # <<pc, cur, attempts>>)
        => /\ (/\ pc = "pending"
               /\ ctx[1].policy.max_tokens # <<>>
               /\ totals >= ctx[1].policy.max_tokens[1])
                => pc' = "budget_skip"
           /\ pc = "budget_skip"
                => /\ stepStatus'[cur] = "skipped" /\ stepError'[cur] = "budget"
                   /\ invoked' = invoked /\ adapterCalls' = adapterCalls

C18_EarlierStepsTerminal ==
    \A m \in StepNames :
        invoked[m] => /\ m <= cur
                      /\ \A n \in StepNames : n < m => stepStatus[n] \in Terminal

\* an adapter call is made for the workflow's current step only, when every
\* earlier step is terminal and no later step has been invoked; and a call in
\* progress (between attempts) belongs to the current step
C18_InvokeInOrder ==
    /\ \A m \in StepNames :
        (adapterCalls' # adapterCalls \/ invoked'[m] # invoked[m] \/ attempts' > 0)
            => /\ pc = "invoke" \/ pc = "compensate"
               /\ invoked'[m] # invoked[m] => m = cur
               /\ \A c \in adapterCalls' \ adapterCalls : c.step = cur
               /\ \A n \in StepNames : n < cur => stepStatus[n] \in Terminal
               /\ \A k \in StepNames : k > cur => ~invoked[k]

\* C18: within one run the adapter invocations happen in declared step order
\* and never overlap: the adapter of a step is invoked only after every
\* earlier step has reached a terminal status.
C18_SerialInvocation == []C18_EarlierStepsTerminal /\ [][C18_InvokeInOrder]_vars

\* both steps had their adapter invoked, the second while the first was
\* already succeeded
C18_Witness ==
    /\ invoked[1] /\ invoked[2] /\ pc = "invoke" /\ cur = 2
    /\ stepStatus[1] = "succeeded" /\ stepStatus[2] = "running"

\* C19: a run created in dry-run mode, every step's tool in the allowlist for
\* the creator's role (Admin, the default of get_user_roles), eventually is
\* succeeded with every step succeeded and the adapter invoked for each step
\* with dryRun = true
C19_DryRunSucceeds ==
    (/\ runStatus = "running" /\ runMode = "dry-run"
     /\ \A n \in StepNames : Allowed(runbook[n].tool, policyDb.tool_allowlist, {"Admin"}))
    ~> (/\ runStatus = "succeeded"
        /\ \A n \in StepNames :
             /\ stepStatus[n] = "succeeded"
             /\ \E c \in adapterCalls :
                  c.step = n /\ c.activity = "invoke_adapter" /\ c.call.dryRun)

(***************************************************************************)
(* SpecTenant: policies of two tenants and the policy load_context returns *)
(* for a run                                                               *)
(***************************************************************************)
MaxPolicies == 3       \* rows in policies

PolicyTenants == {"t1", "t2"}
PolicyNames == {"default", "strict"}

\* POST /policies: a row with the caller's tenant_id, 409 when the tenant has a
\* policy of that name; then the audit entry policy.create
create_policy(tenant, name, policy) ==
    /\ Len(policyRows) < MaxPolicies
    /\ \A i \in 1..Len(policyRows) :
         ~(policyRows[i].tenant_id = tenant /\ policyRows[i].name = name)
    /\ policyRows' = Append(policyRows, [tenant_id |-> tenant, name |-> name, policy |-> policy])
    /\ auditLog' = Append(auditLog, AuditEntry(tenant, "p1", LatestHash(tenant)))
    /\ UNCHANGED <<loaded, writers, verifyOut, tampered>>

\* load_context: select(Policy).order_by(created_at.desc()).first(), {} without rows
LatestPolicy ==
    IF policyRows = <<>> THEN EmptyPolicy ELSE policyRows[Len(policyRows)].policy

\* load_context for a run of the given tenant: the policy part of its result
LoadContextPolicy(tenant) ==
    /\ loaded' = <<[tenant |-> tenant, policy |-> LatestPolicy]>>
    /\ UNCHANGED <<policyRows, auditVars>>

InitTenant == TenantIdle /\ EngineIdle /\ PolicyIdle /\ AdapterIdle /\ AuditIdle /\ RequestIdle

TenantFrame == UNCHANGED <<engineVars, policyVars, adapterVars, requestVars>>

NextTenant ==
    \/ \E tenant \in PolicyTenants, name \in PolicyNames, policy \in EnginePolicies :
          create_policy(tenant, name, policy) /\ TenantFrame
    \/ \E tenant \in PolicyTenants : LoadContextPolicy(tenant) /\ TenantFrame

SpecTenant == InitTenant /\ [][NextTenant]_vars

\* the latest policy among the rows of one tenant, {} when it has none
C20_OwnLatest(tenant) ==
    LET own == {i \in 1..Len(policyRows) : policyRows[i].tenant_id = tenant} IN
    IF own = {} THEN EmptyPolicy
    ELSE policyRows[CHOOSE i \in own : \A j \in own : j <= i].policy

\* C20: the policy load_context hands to the workflow of a run decides the
\* run's steps as the latest policy of the run's own tenant does: whether a
\* step is allowed, skipped or gated does not depend on the policies of
\* another tenant
C20_OwnTenantPolicy ==
    [][loaded' # loaded
       => LET step == StepDict(1, [tool |-> "k8s.drain_node"]) IN
          policy_validate(step, loaded'[1].policy, {"Admin"}, EmptyDict, <<>>)
            = policy_validate(step, C20_OwnLatest(loaded'[1].tenant), {"Admin"}, EmptyDict, <<>>)]_vars

(***************************************************************************)
(* SpecRbac: gateway/app/rbac.py, one request through authorize            *)
(***************************************************************************)
MaxBindings == 2       \* rows in role_bindings

RequestFrame == UNCHANGED <<engineVars, policyVars, adapterVars, auditVars, tenantVars>>
OthersIdle == EngineIdle /\ PolicyIdle /\ AdapterIdle /\ AuditIdle /\ TenantIdle

NoProject == "None"    \* project_id None
RbacRoles == {"Admin", "SRE", "OnCall", "Viewer"}
RbacActions == {"read", "write", "execute", "approve"}
RbacResources == {"run", "approval", "policy"}
RbacSubjects == {"user", "group"}
\* the rows of role_bindings of the request's tenant
RoleBindings == [project_id : {NoProject, "p1", "p2"}, subject : RbacSubjects, role : RbacRoles]
\* the request: the project it resolves to and its subject identifiers
RbacRequests == [project_id : {NoProject, "p1"}, subjects : {<<>>, <<"user">>, <<"user", "group">>}]

\* mutation of check_permission: the wildcard-resource entry is not looked up
Mut_check_permission(role, action, resource) ==
    LET SRE == {<<"write", "runbook", TRUE>>, <<"write", "policy", TRUE>>,
                <<"read", "runbook", TRUE>>, <<"read", "policy", TRUE>>,
                <<"read", "run", TRUE>>, <<"execute", "run", TRUE>>,
                <<"approve", "approval", FALSE>>, <<"read", "project", TRUE>>}
        OnCall == {<<"read", "*", TRUE>>, <<"approve", "approval", TRUE>>}
        Viewer == {<<"read", "*", TRUE>>}
        role_perms == IF role = "SRE" THEN SRE ELSE IF role = "OnCall" THEN OnCall
                      ELSE IF role = "Viewer" THEN Viewer ELSE {}
        Has(a, r) == \E e \in role_perms : e[1] = a /\ e[2] = r
        Get(a, r) == (CHOOSE e \in role_perms : e[1] = a /\ e[2] = r)[3]
    IN  IF role = "Admin" THEN TRUE
        ELSE IF Has(action, resource) THEN Get(action, resource)
        ELSE IF Has("*", resource) THEN Get("*", resource)
        ELSE IF Has("*", "*") THEN Get("*", "*")
        ELSE FALSE

\* PERMISSIONS and _check_permission: the role's entry for the exact pair, else
\* for ("*", resource), else for (action, "*"), else for ("*", "*"), else False
check_permission(role, action, resource) ==
    LET SRE == {<<"write", "runbook", TRUE>>, <<"write", "policy", TRUE>>,
                <<"read", "runbook", TRUE>>, <<"read", "policy", TRUE>>,
                <<"read", "run", TRUE>>, <<"execute", "run", TRUE>>,
                <<"approve", "approval", FALSE>>, <<"read", "project", TRUE>>}
        OnCall == {<<"read", "*", TRUE>>, <<"approve", "approval", TRUE>>}
        Viewer == {<<"read", "*", TRUE>>}
        role_perms == IF role = "SRE" THEN SRE ELSE IF role = "OnCall" THEN OnCall
                      ELSE IF role = "Viewer" THEN Viewer ELSE {}
        Has(a, r) == \E e \in role_perms : e[1] = a /\ e[2] = r
        Get(a, r) == (CHOOSE e \in role_perms : e[1] = a /\ e[2] = r)[3]
    IN  IF role = "Admin" THEN TRUE
        ELSE IF Has(action, resource) THEN Get(action, resource)
        ELSE IF Has("*", resource) THEN Get("*", resource)
        ELSE IF Has(action, "*") THEN Get(action, "*")
        ELSE IF Has("*", "*") THEN Get("*", "*")
        ELSE FALSE

\* rbac.py 124-129 and 140-145: the loop over the bindings a query returned;
\* a role already in roles_checked is passed over, the first role that admits
\* the pair ends the loop
RECURSIVE CheckBindings(_, _, _, _)
CheckBindings(bindings, roles_checked, action, resource) ==
    IF bindings = <<>> THEN [allowed |-> FALSE, roles_checked |-> roles_checked]
    ELSE LET role == Head(bindings).role IN
         IF role \in roles_checked
         THEN CheckBindings(Tail(bindings), roles_checked, action, resource)
         ELSE IF check_permission(role, action, resource)
         THEN [allowed |-> TRUE, roles_checked |-> roles_checked \cup {role}]
         ELSE CheckBindings(Tail(bindings), roles_checked \cup {role}, action, resource)

\* rbac.py 114-148: for each subject the bindings at the request's project,
\* then, if that did not allow, the tenant-level bindings
RECURSIVE SubjectLoop(_, _, _, _, _, _)
SubjectLoop(subjects, roles_checked, action, resource, project_id, rows) ==
    IF subjects = <<>> THEN [allowed |-> FALSE, roles_checked |-> roles_checked]
    ELSE LET At(p) == SelectSeq(rows, LAMBDA b : b.project_id = p /\ b.subject = Head(subjects))
             proj == IF project_id # NoProject
                     THEN CheckBindings(At(project_id), roles_checked, action, resource)
                     ELSE [allowed |-> FALSE, roles_checked |-> roles_checked]
             ten == IF ~proj.allowed
                    THEN CheckBindings(At(NoProject), proj.roles_checked, action, resource)
                    ELSE proj
         IN  IF ten.allowed THEN ten
             ELSE SubjectLoop(Tail(subjects), ten.roles_checked, action, resource, project_id, rows)

\* mutation of authorize: the special case asks for SRE or OnCall
Mut_authorize(action, resource, request, rows) ==
    IF request.subjects = <<>> THEN "401"
    ELSE LET r == SubjectLoop(request.subjects, {}, action, resource, request.project_id, rows)
             special == /\ action = "approve" /\ resource = "approval"
                        /\ ("SRE" \in r.roles_checked \/ "OnCall" \in r.roles_checked)
         IN  IF r.allowed \/ special THEN "ok" ELSE "403"

\* authorize(action, resource)._authorize: 401 without subject identifiers,
\* 403 when nothing allows, else the request goes through
authorize(action, resource, request, rows) ==
    IF request.subjects = <<>> THEN "401"
    ELSE LET r == SubjectLoop(request.subjects, {}, action, resource, request.project_id, rows)
             special == /\ action = "approve" /\ resource = "approval"
                        /\ "SRE" \in r.roles_checked /\ "OnCall" \in r.roles_checked
         IN  IF r.allowed \/ special THEN "ok" ELSE "403"

RECURSIVE SeqsUpTo(_, _)
\* the sequences over S of length at most n
SeqsUpTo(S, n) ==
    IF n = 0 THEN {<<>>}
    ELSE LET shorter == SeqsUpTo(S, n - 1) IN
         shorter \cup {Append(q, x) : q \in {t \in shorter : Len(t) = n - 1}, x \in S}

InitRbac ==
    /\ reqIn \in [rows : SeqsUpTo(RoleBindings, MaxBindings), request : RbacRequests,
                  action : RbacActions, resource : RbacResources]
    /\ reqOut = <<>>
    /\ StreamIdle /\ CanaryIdle
    /\ OthersIdle

Authorize ==
    /\ reqOut = <<>>
    /\ reqOut' = <<authorize(reqIn.action, reqIn.resource, reqIn.request, reqIn.rows)>>
    /\ UNCHANGED <<reqIn, streamVars, canaryVars>>

NextRbac == Authorize /\ RequestFrame

SpecRbac == InitRbac /\ [][NextRbac]_vars

\* the roles bound to one of the request's subjects at the request's project
\* or tenant-wide
C21_Held ==
    {reqIn.rows[i].role : i \in {j \in 1..Len(reqIn.rows) :
        /\ \E k \in 1..Len(reqIn.request.subjects) :
               reqIn.request.subjects[k] = reqIn.rows[j].subject
        /\ reqIn.rows[j].project_id \in {reqIn.request.project_id, NoProject}}}

\* C21: authorize("approve", "approval") lets the request through if and only
\* if the subject holds Admin, or OnCall, or both SRE and OnCall, among its
\* bindings at the request's project or tenant-wide; SRE alone is denied.
C21_ApproveApproval ==
    (reqOut # <<>> /\ reqIn.action = "approve" /\ reqIn.resource = "approval")
        => /\ (reqOut[1] = "ok") <=> \/ "Admin" \in C21_Held
                                     \/ "OnCall" \in C21_Held
                                     \/ {"SRE", "OnCall"} \subseteq C21_Held
           /\ C21_Held = {"SRE"} => reqOut[1] = "403"

\* approve approval was decided for a subject bound to SRE at the project and
\* to OnCall tenant-wide
C21_Witness ==
    /\ reqOut = <<"ok">> /\ reqIn.action = "approve" /\ reqIn.resource = "approval"
    /\ reqIn.request.project_id = "p1" /\ C21_Held = {"SRE", "OnCall"}
    /\ reqIn.rows[1].role = "SRE" /\ reqIn.rows[1].project_id = "p1"

NoValue == "None"      \* a header that is not sent, a row that does not exist
FlagTools == {"github.rollback_release", "k8s.drain_node"}
HeaderValues == {NoValue, "github", "k8s", "jira", "staging"}
FlagModes == {NoValue, "real", "mock", "canary"}
EnvValues == {"", "real", "mock", "REAL"}

\* tool.split(".")[0]
Namespace(tool) == IF tool = "github.rollback_release" THEN "github" ELSE "k8s"

\* feature_flags.which_adapter, given the X-Adapter-Real header, the mode of
\* the feature_flags row of the tool and the value of ADAPTER_FLAG_<tool>
which_adapter(tool, x_adapter_real, flag, env) ==
    LET env_value == IF env = "REAL" THEN "real" ELSE env IN
    IF x_adapter_real # NoValue /\ x_adapter_real = Namespace(tool) THEN "real"
    ELSE IF flag \in {"real", "mock"} THEN flag
    ELSE IF env_value \in {"real", "mock"} THEN env_value
    ELSE "mock"

\* routers/tools.pick_adapter: every namespace of ADAPTERS has both variants
pick_adapter(tool, use_real) ==
    IF Namespace(tool) \notin {"github", "jira", "k8s", "pagerduty"} THEN NoValue
    ELSE IF use_real THEN "real" ELSE "mock"

\* POST /tools/invoke for a call the policy guard and the quota let through:
\* the adapter variant invoke() is called on, then the audit entry
invoke_tool ==
    LET use_real == reqIn.x_adapter_real \in {"github", "k8s", "jira", "pagerduty"} IN
    /\ reqOut = <<>>
    /\ reqOut' = <<pick_adapter(reqIn.tool, use_real)>>
    /\ auditLog' = Append(auditLog, AuditEntry("t1", "p1", LatestHash("t1")))
    /\ UNCHANGED <<reqIn, streamVars, canaryVars, writers, verifyOut, tampered>>

InitFlags ==
    /\ reqIn \in [tool : FlagTools, x_adapter_real : HeaderValues, flag : FlagModes,
                  env : EnvValues]
    /\ reqOut = <<>>
    /\ StreamIdle /\ CanaryIdle
    /\ OthersIdle

NextFlags == invoke_tool /\ UNCHANGED <<engineVars, policyVars, adapterVars, tenantVars>>

SpecFlags == InitFlags /\ [][NextFlags]_vars

\* C23: the adapter variant a tool invocation is dispatched to is the one the
\* feature-flag lookup selects for the tool: real if the X-Adapter-Real header
\* names the tool's own namespace, else the mode of the DB row, else the env
\* var, else mock
C23_DispatchFollowsFlag ==
    reqOut # <<>>
        => reqOut[1] = which_adapter(reqIn.tool, reqIn.x_adapter_real, reqIn.flag, reqIn.env)

(***************************************************************************)
(* SpecEvents: GET /runs/{id}/events (routers/runs.py stream_run_events)   *)
(* beside the workflow's writes to the step rows                           *)
(***************************************************************************)
Done == <<0, "done">>      \* the done event; a step event is <<name, status>>
TerminalStatuses == {"succeeded", "failed", "skipped", "compensated"}

\* _terminal(status)
IsTerminal(status) == status \in TerminalStatuses

\* the step the workflow is at: steps are run in order and the workflow ends
\* at the first step that fails (steps without compensate)
WorkflowAt ==
    IF \E n \in StepNames : rowStatus[n] = "failed" THEN 0
    ELSE IF \A n \in StepNames : IsTerminal(rowStatus[n]) THEN 0
    ELSE CHOOSE n \in StepNames :
            /\ ~IsTerminal(rowStatus[n])
            /\ \A k \in StepNames : k < n => IsTerminal(rowStatus[k])

\* the record_step({"status": status}) calls of the workflow in their order:
\* skipped or running from pending, succeeded or failed
\* from running
WorkflowRecord(n, status) ==
    /\ n = WorkflowAt
    /\ \/ rowStatus[n] = "pending" /\ status \in {"skipped", "running"}
       \/ rowStatus[n] = "running" /\ status \in {"succeeded", "failed"}
    /\ rowStatus' = [rowStatus EXCEPT ![n] = status]
    /\ transitions' = Append(transitions, <<n, status>>)
    /\ UNCHANGED <<last_states, events>>

\* started_at is set by the write of "running" and kept afterwards
HasStarted(n) == rowStatus[n] \in {"running", "succeeded", "failed"}

\* order_by(nullsfirst(asc(Step.started_at)), asc(Step.name)): the rows without
\* started_at by name, then the started rows (started in the order of names)
RECURSIVE ByName(_)
ByName(S) ==
    IF S = {} THEN <<>>
    ELSE LET n == CHOOSE x \in S : \A y \in S : x <= y IN <<n>> \o ByName(S \ {n})

QueryOrder ==
    ByName({n \in StepNames : ~HasStarted(n)}) \o ByName({n \in StepNames : HasStarted(n)})

\* the for loop of one poll: a step event for every row whose status differs
\* from last_states
RECURSIVE EmitChanged(_, _)
EmitChanged(order, last) ==
    IF order = <<>> THEN <<>>
    ELSE LET n == Head(order) IN
         (IF rowStatus[n] # last[n] THEN <<<<n, rowStatus[n]>>>> ELSE <<>>)
            \o EmitChanged(Tail(order), last)

StreamOpen == IF events = <<>> THEN TRUE ELSE events[Len(events)] # Done

\* one iteration of the while loop of event_generator; the iteration that
\* finds every row terminal leaves the loop and yields done
Poll ==
    LET emitted == EmitChanged(QueryOrder, last_states)
        all_terminal == \A n \in StepNames : IsTerminal(rowStatus[n])
    IN
    /\ StreamOpen
    /\ events' = events \o emitted \o (IF all_terminal THEN <<Done>> ELSE <<>>)
    /\ last_states' = rowStatus
    /\ UNCHANGED <<rowStatus, transitions>>

\* datetime.utcnow() >= end_time, five minutes after the connection: the
\* loop, which has run at least once, ends and done is yielded
StreamTimeout ==
    /\ StreamOpen
    /\ last_states # [n \in StepNames |-> None]
    /\ events' = Append(events, Done)
    /\ UNCHANGED <<rowStatus, last_states, transitions>>

InitEvents ==
    /\ rowStatus = [n \in StepNames |-> "pending"]
    /\ last_states = [n \in StepNames |-> None]
    /\ events = <<>>
    /\ transitions = <<>>
    /\ reqIn = <<>> /\ reqOut = <<>> /\ CanaryIdle
    /\ OthersIdle

NextEvents ==
    /\ \/ \E n \in StepNames, status \in TerminalStatuses \cup {"running"} :
            WorkflowRecord(n, status)
       \/ Poll
       \/ StreamTimeout
    /\ UNCHANGED <<engineVars, policyVars, adapterVars, auditVars, tenantVars, reqIn, reqOut,
                   canaryVars>>

SpecEvents == InitEvents /\ [][NextEvents]_vars

\* C25: a subscriber connected from the start has received, when done
\* arrives, a step event for every status transition of every step since
\* the creation of the run, in the order the transitions happened, and every
\* step is terminal
C25_EveryTransition ==
    ~StreamOpen =>
        /\ SelectSeq(events, LAMBDA e : e[2] \notin {"pending", "done"}) = transitions
        /\ \A n \in StepNames : IsTerminal(rowStatus[n])

(***************************************************************************)
(* SpecCanary: gateway/app/routers/canary.py, promotion of a shadow run    *)
(***************************************************************************)
\* match_score in hundredths, cost_usd in dollars, p95_ms in milliseconds; a
\* key that the dict does not hold is <<>>
CanaryMetrics ==
    [enabled : BOOLEAN, match_score : {<<>>, <<60>>, <<100>>},
     policy_violations : {<<>>, <<2>>}, cost_usd : {<<>>, <<5>>}, p95_ms : {<<>>, <<900>>}]

CanaryThresholds ==
    [min_match_score : {<<>>, <<60>>, <<80>>}, max_policy_violations : {<<>>, <<2>>},
     max_cost_usd : {<<>>, <<3>>}, max_p95_ms : {<<>>, <<500>>}]

\* dict.get(key, default) for a numeric key
GetOr(value, default) == IF value = <<>> THEN default ELSE value[1]

\* float("inf") as the default of a maximum: the comparison is never true
Exceeds(value, maximum) == maximum # <<>> /\ value > maximum[1]

Mut_check_canary_eligibility ==
    IF ~runMetrics.enabled THEN {"not a shadow run"}
    ELSE IF canaryPolicy = <<>> THEN {"canary policy not found"}
    ELSE LET thresholds == canaryPolicy[1] IN
         (IF GetOr(runMetrics.match_score, 0) < GetOr(thresholds.min_match_score, 0)
          THEN {"match_score"} ELSE {})
         \cup (IF GetOr(runMetrics.policy_violations, 0)
                    > GetOr(thresholds.max_policy_violations, 0)
               THEN {"policy_violations"} ELSE {})
         \cup (IF Exceeds(GetOr(runMetrics.cost_usd, 0), thresholds.max_cost_usd)
               THEN {"cost_usd"} ELSE {})

\* check_canary_eligibility(run_id, policy="default"): the reasons; the run is
\* eligible when there is none
check_canary_eligibility ==
    IF ~runMetrics.enabled THEN {"not a shadow run"}
    ELSE IF canaryPolicy = <<>> THEN {"canary policy not found"}
    ELSE LET thresholds == canaryPolicy[1] IN
         (IF GetOr(runMetrics.match_score, 0) < GetOr(thresholds.min_match_score, 0)
          THEN {"match_score"} ELSE {})
         \cup (IF GetOr(runMetrics.policy_violations, 0)
                    > GetOr(thresholds.max_policy_violations, 0)
               THEN {"policy_violations"} ELSE {})
         \cup (IF Exceeds(GetOr(runMetrics.cost_usd, 0), thresholds.max_cost_usd)
               THEN {"cost_usd"} ELSE {})
         \cup (IF Exceeds(GetOr(runMetrics.p95_ms, 0), thresholds.max_p95_ms)
               THEN {"p95_ms"} ELSE {})

Response(op, status) == <<[op |-> op, status |-> status]>>

\* POST /canary/policies {name: "default", thresholds}: insert or update, then
\* the audit entry
create_canary_policy(thresholds) ==
    /\ Len(auditLog) < MaxLog
    /\ canaryPolicy' = <<thresholds>>
    /\ auditLog' = Append(auditLog, AuditEntry("t1", "p1", LatestHash("t1")))
    /\ reqOut' = Response("canary_policy", "201")
    /\ UNCHANGED <<runMetrics, canary_promoted>>

\* POST /runs/{id}/promote: 400 when the check gives a reason, else the
\* runbook is marked and the audit entry run.promote written
promote_run ==
    IF check_canary_eligibility # {}
    THEN /\ reqOut' = Response("promote", "400")
         /\ UNCHANGED <<runMetrics, canaryPolicy, canary_promoted, auditLog>>
    ELSE /\ Len(auditLog) < MaxLog
         /\ canary_promoted' = TRUE
         /\ auditLog' = Append(auditLog, AuditEntry("t1", "p2", LatestHash("t1")))
         /\ reqOut' = Response("promote", "ok")
         /\ UNCHANGED <<runMetrics, canaryPolicy>>

InitCanary ==
    /\ runMetrics \in CanaryMetrics
    /\ canaryPolicy = <<>>
    /\ canary_promoted = FALSE
    /\ reqIn = <<>> /\ reqOut = <<>>
    /\ StreamIdle
    /\ OthersIdle

NextCanary ==
    /\ \/ \E thresholds \in CanaryThresholds : create_canary_policy(thresholds)
       \/ promote_run
    /\ UNCHANGED <<engineVars, policyVars, adapterVars, tenantVars, reqIn, streamVars,
                   writers, verifyOut, tampered>>

SpecCanary == InitCanary /\ [][NextCanary]_vars

\* the run is a shadow run whose metrics satisfy the four thresholds of the
\* canary policy (a metric that is not recorded counts as 0, a minimum or a
\* maximum of violations that is not set as 0, another maximum that is not
\* set as no limit)
C28_MeetsThresholds ==
    /\ runMetrics.enabled
    /\ canaryPolicy # <<>>
    /\ LET t == canaryPolicy[1]
           score == IF runMetrics.match_score = <<>> THEN 0 ELSE runMetrics.match_score[1]
           viol == IF runMetrics.policy_violations = <<>> THEN 0
                   ELSE runMetrics.policy_violations[1]
           cost == IF runMetrics.cost_usd = <<>> THEN 0 ELSE runMetrics.cost_usd[1]
           p95 == IF runMetrics.p95_ms = <<>> THEN 0 ELSE runMetrics.p95_ms[1]
       IN  /\ t.min_match_score # <<>> => score >= t.min_match_score[1]
           /\ viol <= (IF t.max_policy_violations = <<>> THEN 0 ELSE t.max_policy_violations[1])
           /\ t.max_cost_usd # <<>> => cost <= t.max_cost_usd[1]
           /\ t.max_p95_ms # <<>> => p95 <= t.max_p95_ms[1]

C28_Step ==
    /\ canary_promoted' # canary_promoted
        => (canary_promoted' /\ C28_MeetsThresholds /\ reqOut' = Response("promote", "ok"))
    /\ (~C28_MeetsThresholds /\ reqOut' # reqOut /\ reqOut'[1].op = "promote")
        => (reqOut' = Response("promote", "400") /\ canary_promoted' = canary_promoted)

\* C28: canary_promoted becomes true only through a promote on a shadow run
\* whose metrics satisfy all four thresholds; a promote on a run that misses
\* one is answered 400 and leaves canary_promoted as it was
C28_PromoteOnlyWithinThresholds == [][C28_Step]_vars

C28_Witness ==
    /\ canary_promoted /\ reqOut = Response("promote", "ok")
    /\ canaryPolicy[1].min_match_score = <<80>> /\ canaryPolicy[1].max_p95_ms = <<500>>
    /\ canaryPolicy[1].max_cost_usd = <<3>> /\ canaryPolicy[1].max_policy_violations = <<2>>
    /\ runMetrics.match_score = <<100>> /\ runMetrics.policy_violations = <<2>>

(***************************************************************************)
(* SpecShadow: orchestrator/app/activities.py compute_shadow at the end of *)
(* a shadow run of two steps                                               *)
(***************************************************************************)
ShadowTools == {"k8s.drain_node", "github.rollback_release"}
ShadowInputs == {"i1", "i2"}

\* the Step rows of the run in the order of started_at
ShadowRows ==
    {<<[name |-> "s1", tool |-> t1, input |-> i1, status |-> "succeeded"],
       [name |-> "s2", tool |-> t2, input |-> i2, status |-> st]>> :
        t1 \in ShadowTools, i1 \in ShadowInputs, t2 \in ShadowTools, i2 \in ShadowInputs,
        st \in {"succeeded", "skipped"}}

\* payload.shadow_expected.steps of POST /runs
ShadowExpected ==
    {<<[name |-> "s1", tool |-> t1, input |-> i1],
       [name |-> "s2", tool |-> t2, input |-> i2]>> :
        t1 \in ShadowTools, i1 \in ShadowInputs, t2 \in ShadowTools, i2 \in ShadowInputs}

\* compute_shadow 319-415: the block it builds for metrics["shadow"], the
\* match score in thousandths; a skipped step of a shadow run carries a
\* policy or budget error
compute_shadow(steps, expected_steps) ==
    LET agent_idx == {k \in DOMAIN steps : steps[k].status \in {"succeeded", "running", "pending"}}
        total_steps ==
            LET n == IF Cardinality(agent_idx) > Len(expected_steps)
                     THEN Cardinality(agent_idx) ELSE Len(expected_steps)
            IN  IF n = 0 THEN 1 ELSE n
        \* the pairs (agent step, expected step) of one name
        both == {p \in agent_idx \X DOMAIN expected_steps :
                    steps[p[1]].name = expected_steps[p[2]].name}
        tool_matches == Cardinality({p \in both : steps[p[1]].tool = expected_steps[p[2]].tool})
        args_matches == Cardinality({p \in both : steps[p[1]].input = expected_steps[p[2]].input})
        order_matches == Cardinality({p \in both : p[1] = p[2]})
    IN  [enabled |-> TRUE,
         match_score |-> (500 * tool_matches + 300 * args_matches + 200 * order_matches)
                            \div total_steps,
         policy_violations |-> Cardinality({k \in DOMAIN steps : steps[k].status = "skipped"})]

\* compute_shadow 409-417: metrics = run.metrics or {}; metrics["shadow"] = ...;
\* run.metrics = metrics; db.commit().  Run.metrics is a plain JSON column
\* (models.py 67): the commit writes it when the value assigned differs from
\* the value loaded, and here the dict assigned is the dict loaded, changed in
\* place, unless run.metrics was empty
ComputeShadow ==
    LET block == compute_shadow(reqIn, runMetrics.expected)
        fresh_dict == DOMAIN runMetrics = {}      \* run.metrics is falsy
    IN
    /\ reqOut = <<>>
    /\ reqOut' = <<block>>
    /\ runMetrics' = IF fresh_dict THEN [k \in {"shadow"} |-> <<block>>] ELSE runMetrics
    /\ UNCHANGED <<reqIn, canaryPolicy, canary_promoted>>

InitShadow ==
    /\ reqIn \in ShadowRows
    /\ runMetrics \in [mode : {"shadow"}, plan : {<<"s1", "s2">>}, expected : ShadowExpected,
                       shadow : {<<>>}]
    /\ canaryPolicy = <<>> /\ canary_promoted = FALSE
    /\ reqOut = <<>>
    /\ StreamIdle
    /\ OthersIdle

NextShadow ==
    /\ ComputeShadow
    /\ UNCHANGED <<engineVars, policyVars, adapterVars, auditVars, tenantVars, streamVars>>

SpecShadow == InitShadow /\ [][NextShadow]_vars

\* both steps ran, s1 with the expected tool and input, s2 with another tool
\* and another input than expected
C29_Scenario ==
    /\ reqIn[2].status = "succeeded"
    /\ reqIn[1].tool = runMetrics.expected[1].tool
    /\ reqIn[1].input = runMetrics.expected[1].input
    /\ reqIn[2].tool # runMetrics.expected[2].tool
    /\ reqIn[2].input # runMetrics.expected[2].input

\* C29: after compute_shadow on a shadow run of two expected steps with the
\* same names and order, s1 matching in tool and input and s2 run with a
\* different tool (tool matches 1/2, args matches 1/2, order matches 2/2), the
\* match_score stored in the run's metrics is 0.6
C29_StoredScore ==
    (reqOut # <<>> /\ C29_Scenario)
        => (runMetrics.shadow # <<>> /\ runMetrics.shadow[1].match_score = 600)

(***************************************************************************)
(* SpecGate: the policy gate of the workflow for a run created by a        *)
(* subject with given roles                                                *)
(***************************************************************************)
CreatorRoles == {{}, {"Admin"}, {"SRE"}, {"Viewer"}, {"SRE", "Viewer"}, {"Admin", "Viewer"}}

\* POST /runs by a subject with reqIn.creator_roles stores no roles on the run;
\* the workflow then calls load_context and, for the step, policy_validate
\* with ctx.get("user_roles", []) (workflows.py 68-75)
EngineGate ==
    LET c == load_context IN
    /\ reqOut = <<>>
    /\ reqOut' = <<policy_validate(StepDict(1, [tool |-> reqIn.tool]),
                                   Policy(reqIn.allowlist, <<>>, <<>>),
                                   c.user_roles, c.context, reqIn.schemaErrors)>>
    /\ UNCHANGED <<reqIn, streamVars, canaryVars>>

InitGate ==
    /\ reqIn \in [creator_roles : CreatorRoles, tool : Tools, allowlist : PolicyAllowlists,
                  schemaErrors : {<<>>, <<"schema">>}]
    /\ reqOut = <<>>
    /\ StreamIdle /\ CanaryIdle
    /\ OthersIdle

NextGate == EngineGate /\ RequestFrame

SpecGate == InitGate /\ [][NextGate]_vars

\* C31: the engine's policy gate evaluates the allowlist against the roles of
\* the subject who created the run: the step passes the allowlist gate when
\* the allowlist is empty or one of the creator's roles lists the tool, and is
\* refused with "tool not allowed for roles" (and skipped) otherwise
C31_CreatorRolesGate ==
    reqOut # <<>> =>
        IF AllowlistGate([allowlist |-> reqIn.allowlist, user_roles |-> reqIn.creator_roles,
                          tool |-> reqIn.tool])
        THEN "tool not allowed for roles" \notin Range(reqOut[1].reasons)
        ELSE ~reqOut[1].ok /\ "tool not allowed for roles" \in Range(reqOut[1].reasons)

(***************************************************************************)
(* SpecWhen: gateway/app/policy_engine.py _eval_expr on the tokens of a    *)
(* when expression built from three operands and the operators and / or.  *)
(***************************************************************************)
WhenShapes == {"a or b and c", "a and b or c", "a and b and c", "a or b or c",
               "( a or b ) and c", "a and ( b or c )", "env == 'prod' or b and c"}

\* the tokens _tokenize yields for a shape with the operand values filled in
WhenTokens(in) ==
    LET a == TWord(in.a)
        b == TWord(in.b)
        c == TWord(in.c)
    IN  CASE in.shape = "a or b and c" -> <<a, TOr, b, TAnd, c>>
          [] in.shape = "a and b or c" -> <<a, TAnd, b, TOr, c>>
          [] in.shape = "a and b and c" -> <<a, TAnd, b, TAnd, c>>
          [] in.shape = "a or b or c" -> <<a, TOr, b, TOr, c>>
          [] in.shape = "( a or b ) and c" -> <<TLParen, a, TOr, b, TRParen, TAnd, c>>
          [] in.shape = "a and ( b or c )" -> <<a, TAnd, TLParen, b, TOr, c, TRParen>>
          [] OTHER -> <<TId("context", "env"), TEq, TLit("prod"), TOr, b, TAnd, c>>

\* the context of the evaluation: env is prod exactly when operand a holds
WhenContext(in) == [k \in {"env"} |-> VStr(IF in.a THEN "prod" ELSE "dev")]

\* decide's call _eval_expr(tokens, context, step)
EvalWhen ==
    /\ reqOut = <<>>
    /\ reqOut' = <<EvalExpr(WhenTokens(reqIn), WhenContext(reqIn), EmptyDict)>>
    /\ UNCHANGED <<reqIn, streamVars, canaryVars>>

InitWhen ==
    /\ reqIn \in [shape : WhenShapes, a : BOOLEAN, b : BOOLEAN, c : BOOLEAN]
    /\ reqOut = <<>>
    /\ StreamIdle /\ CanaryIdle
    /\ OthersIdle

NextWhen == EvalWhen /\ RequestFrame

SpecWhen == InitWhen /\ [][NextWhen]_vars

\* the value of a shape under the precedence () > == > and > or
C34_Expected(in) ==
    CASE in.shape = "a or b and c" -> in.a \/ (in.b /\ in.c)
      [] in.shape = "a and b or c" -> (in.a /\ in.b) \/ in.c
      [] in.shape = "a and b and c" -> in.a /\ in.b /\ in.c
      [] in.shape = "a or b or c" -> in.a \/ in.b \/ in.c
      [] in.shape = "( a or b ) and c" -> (in.a \/ in.b) /\ in.c
      [] in.shape = "a and ( b or c )" -> in.a /\ (in.b \/ in.c)
      [] OTHER -> in.a \/ (in.b /\ in.c)

\* C34: a when expression is evaluated with precedence parentheses > comparison >
\* and > or for every operand value: `a or b and c` is a or (b and c), `a and b or c`
\* is (a and b) or c, and a chain of and/or operators takes every operand into account.
C34_Precedence ==
    reqOut # <<>> => reqOut[1] = (IF C34_Expected(reqIn) THEN "True" ELSE "False")

(***************************************************************************)
(* SpecTokenize: gateway/app/policy_engine.py _tokenize on a when string,  *)
(* a sequence of characters; reqOut holds the locals i and tokens of the   *)
(* call (i counts from 1).  A token is the sequence of its characters.     *)
(***************************************************************************)
MaxExpr == 3        \* longest when string
MaxTokens == 4      \* tokens kept of a call that keeps appending

WhenChars == {"a", "i", "n", " ", "=", "!", "'", "-"}
IsSpace(ch) == ch = " "
IsAlnumDot(ch) == ch \in {"a", "i", "n"}        \* isalnum() or in "._"
SingleOps == {"=", "<", ">", "(", ")", "&", "|"}
Quotes == {"'"}

WhenStrings == UNION {[1..n -> WhenChars] : n \in 1..MaxExpr}

\* expr[a:b] of the source with 1-based a and exclusive b, clipped at the end
Slice(expr, a, b) == SubSeq(expr, a, IF b - 1 > Len(expr) THEN Len(expr) ELSE b - 1)

\* the first position >= i whose character is not in S (Len + 1 if none)
RECURSIVE ScanWhile(_, _, _)
ScanWhile(expr, i, S) ==
    IF i <= Len(expr) /\ expr[i] \in S THEN ScanWhile(expr, i + 1, S) ELSE i

\* the first position >= i whose character is the quote (Len + 1 if none)
RECURSIVE ScanQuote(_, _, _)
ScanQuote(expr, i, quote) ==
    IF i <= Len(expr) /\ expr[i] # quote THEN ScanQuote(expr, i + 1, quote) ELSE i

\* one iteration of `while i < len(expr)`: the locals after it
TokenizeIteration(expr, i, tokens) ==
    LET two == Slice(expr, i, i + 2) IN
    IF IsSpace(expr[i]) THEN [i |-> i + 1, tokens |-> tokens]
    ELSE IF two \in {<<"=", "=">>, <<"!", "=">>, <<"i", "n">>}
         THEN IF two # <<"i", "n">>       \* "not in" is never a 5-character slice
              THEN [i |-> i + 2, tokens |-> Append(tokens, two)]
              ELSE [i |-> i + 1, tokens |-> Append(tokens, <<expr[i]>>)]
    ELSE IF expr[i] \in SingleOps
         THEN [i |-> i + 1, tokens |-> Append(tokens, <<expr[i]>>)]
    ELSE IF expr[i] \in Quotes
         THEN LET stop == ScanQuote(expr, i + 1, expr[i])
              IN  [i |-> stop + 1, tokens |-> Append(tokens, Slice(expr, i, stop + 1))]
    ELSE LET stop == ScanWhile(expr, i, {ch \in WhenChars : IsAlnumDot(ch)})
         IN  [i |-> stop, tokens |-> Append(tokens, Slice(expr, i, stop))]

TokenizeStep ==
    /\ ~reqOut[1].returned
    /\ reqOut[1].i <= Len(reqIn)
    /\ Len(reqOut[1].tokens) < MaxTokens
    /\ LET it == TokenizeIteration(reqIn, reqOut[1].i, reqOut[1].tokens)
       IN  reqOut' = <<[i |-> it.i, tokens |-> it.tokens, returned |-> FALSE]>>
    /\ UNCHANGED <<reqIn, streamVars, canaryVars>>

\* `return tokens` once the loop condition fails
TokenizeReturn ==
    /\ ~reqOut[1].returned
    /\ reqOut[1].i > Len(reqIn)
    /\ reqOut' = <<[reqOut[1] EXCEPT !.returned = TRUE]>>
    /\ UNCHANGED <<reqIn, streamVars, canaryVars>>

InitTokenize ==
    /\ reqIn \in WhenStrings
    /\ reqOut = <<[i |-> 1, tokens |-> <<>>, returned |-> FALSE]>>
    /\ StreamIdle /\ CanaryIdle
    /\ OthersIdle

NextTokenize == (TokenizeStep \/ TokenizeReturn) /\ RequestFrame

SpecTokenize == InitTokenize /\ [][NextTokenize]_vars

\* C35: precondition evaluation terminates and never raises for every when string.
\* The loop of _tokenize is controlled by i and the string alone, so it ends exactly
\* when every iteration moves i forward: an iteration that leaves i where it was is
\* repeated forever and decide never reaches the skip of the rule.
C35_TokenizeAdvances ==
    [][reqOut'[1].returned \/ reqOut'[1].i > reqOut[1].i]_vars

(***************************************************************************)
(* SpecApprove: gateway/app/routers/approvals.py approve_approval as one   *)
(* request on one approval row, with the response the handler returns.     *)
(***************************************************************************)
\* the approval rows a request can meet: signed at time 0 or without signature,
\* approved or not
ApprovalRows ==
    {[exists |-> TRUE, approved |-> approved,
      sig |-> IF signed THEN sign_approval(name, 0).sig ELSE <<>>,
      expires_at |-> IF signed THEN sign_approval(name, 0).expires_at ELSE <<>>,
      approvedWith |-> <<>>] :
        name \in StepNames, approved \in BOOLEAN, signed \in BOOLEAN}

\* approve_approval on row a at time t: the HTTP status, the row's approved
\* column after the request and whether write_audit was called
ApproveResponse(a, token, t) ==
    IF a.approved
    THEN [status |-> "200", body |-> "already approved", approved |-> TRUE, audit |-> FALSE]
    ELSE IF a.sig # <<>> /\ a.expires_at # <<>> /\ token = <<>>
    THEN [status |-> "400", body |-> "token required", approved |-> FALSE, audit |-> FALSE]
    ELSE IF ~ApproveAccepts(a, token, t)
    THEN [status |-> "403", body |-> "invalid or expired token", approved |-> FALSE,
          audit |-> FALSE]
    ELSE [status |-> "200", body |-> "approval_id", approved |-> TRUE, audit |-> TRUE]

ApproveRequest ==
    /\ reqOut = <<>>
    /\ reqOut' = <<ApproveResponse(reqIn.row, reqIn.token, reqIn.t)>>
    /\ UNCHANGED <<reqIn, streamVars, canaryVars>>

InitApprove ==
    /\ reqIn \in [row : ApprovalRows,
                  token : UNION {TokensFor(name) : name \in StepNames},
                  t : {0, APPROVAL_SIG_TTL_MIN + 1}]
    /\ reqOut = <<>>
    /\ StreamIdle /\ CanaryIdle
    /\ OthersIdle

NextApprove == ApproveRequest /\ RequestFrame

SpecApprove == InitApprove /\ [][NextApprove]_vars

\* C36: approve on an approval that is already approved is rejected with an error
\* and changes nothing: approved stays true and no further audit entry is written.
C36_AlreadyApprovedRejected ==
    (reqOut # <<>> /\ reqIn.row.approved)
        => /\ reqOut[1].status # "200"
           /\ reqOut[1].approved
           /\ ~reqOut[1].audit

(***************************************************************************)
(* SpecAuth: gateway/app/middleware.py auth_middleware on one request.     *)
(* Each credential of the request is absent, valid or invalid:             *)
(*   api_key   X-API-Key; valid when resolve_api_key finds an active key   *)
(*   bearer    Authorization: Bearer; valid when decode_access_token       *)
(*             returns a payload                                           *)
(*   cookie    the session cookie; get_session returns None for an absent  *)
(*             and for an invalid one                                      *)
(* disabled is user.is_disabled of the user the credential names, allowed  *)
(* is what check_rate_limit returns for the request's subject.             *)
(***************************************************************************)
Credential == {"absent", "valid", "invalid"}

AuthRequests ==
    [api_key : Credential, bearer : Credential, cookie : Credential,
     disabled : BOOLEAN, allowed : BOOLEAN]

\* the response of the middleware ("next" is call_next(request)) and
\* request.state.authn ("unset" when the attribute was never assigned)
AuthResult(st, authn) == [status |-> st, authn |-> authn]

auth_middleware(req) ==
    IF req.api_key # "absent"
    THEN IF req.api_key = "valid"
         THEN IF ~req.allowed THEN AuthResult("429", "apikey")
              ELSE AuthResult("next", "apikey")
         ELSE AuthResult("401", "unset")
    ELSE LET session_data == req.cookie = "valid"
             authn == IF req.bearer # "absent"
                      THEN IF req.bearer = "valid" THEN "jwt" ELSE "anonymous"
                      ELSE IF session_data THEN "session"
                      ELSE "anonymous"
         IN  IF authn \in {"jwt", "session"} /\ req.disabled
             THEN AuthResult("401", "unset")
             ELSE IF ~req.allowed THEN AuthResult("429", authn)
             ELSE AuthResult("next", authn)

AuthRequest ==
    /\ reqOut = <<>>
    /\ reqOut' = <<auth_middleware(reqIn)>>
    /\ UNCHANGED <<reqIn, streamVars, canaryVars>>

InitAuth ==
    /\ reqIn \in AuthRequests
    /\ reqOut = <<>>
    /\ StreamIdle /\ CanaryIdle
    /\ OthersIdle

NextAuth == AuthRequest /\ RequestFrame

SpecAuth == InitAuth /\ [][NextAuth]_vars

\* the identity of the first credential that validates, in the order API key,
\* bearer token, session cookie
C37_Expected(req) ==
    IF req.api_key = "valid" THEN "apikey"
    ELSE IF req.bearer = "valid" THEN "jwt"
    ELSE IF req.cookie = "valid" THEN "session"
    ELSE "anonymous"

\* C37: the request identity is taken from the first credential, in the order API
\* key, bearer token, session cookie, that validates; a credential that fails
\* validation is passed over, and the request is anonymous only when none
\* validates (for a user that is not disabled and a request within the rate limit).
C37_FirstValidCredential ==
    (reqOut # <<>> /\ ~reqIn.disabled /\ reqIn.allowed)
        => /\ reqOut[1].status = "next"
           /\ reqOut[1].authn = C37_Expected(reqIn)

(***************************************************************************)
(* SpecRate: gateway/app/middleware.py check_rate_limit.  reqIn holds the  *)
(* rps and burst of the calls, reqOut the process state: the clock         *)
(* (time.time(), in ticks), the buckets dict and the last call's outcome.  *)
(* rps is in tokens per tick, so that elapsed * rps is a whole number.     *)
(***************************************************************************)
MaxClock == 3       \* last tick of the clock

Subjects == {"user:u1", "user:u2"}

\* buckets[subject] of the defaultdict: the stored bucket, or a new one
\* {"tokens": 0.0, "last_refill": time.time()} made at the lookup
BucketOf(buckets, subject, t) ==
    IF buckets[subject] # <<>> THEN buckets[subject][1]
    ELSE [tokens |-> 0, last_refill |-> t]

Min(a, b) == IF a <= b THEN a ELSE b

\* check_rate_limit(subject, rps, burst) at time t: the bucket after the call
\* and the value returned
check_rate_limit(buckets, subject, rps, burst, t) ==
    LET bucket == BucketOf(buckets, subject, t)
        elapsed == t - bucket.last_refill
        tokens == Min(burst, bucket.tokens + elapsed * rps)
    IN  IF tokens >= 1
        THEN [bucket |-> [tokens |-> tokens - 1, last_refill |-> t], allowed |-> TRUE]
        ELSE [bucket |-> [tokens |-> tokens, last_refill |-> t], allowed |-> FALSE]

CheckRateLimit(subject) ==
    LET st == reqOut[1]
        r == check_rate_limit(st.buckets, subject, reqIn.rps, reqIn.burst, st.clock)
    IN  /\ reqOut' = <<[clock |-> st.clock,
                        buckets |-> [st.buckets EXCEPT ![subject] = <<r.bucket>>],
                        last |-> <<[subject |-> subject,
                                    unseen |-> st.buckets[subject] = <<>>,
                                    allowed |-> r.allowed]>>]>>
        /\ UNCHANGED <<reqIn, streamVars, canaryVars>>

RateTick ==
    /\ reqOut[1].clock < MaxClock
    /\ reqOut' = <<[reqOut[1] EXCEPT !.clock = @ + 1]>>
    /\ UNCHANGED <<reqIn, streamVars, canaryVars>>

InitRate ==
    /\ reqIn \in [rps : {1, 2}, burst : {1, 2, 3}]
    /\ reqOut = <<[clock |-> 0, buckets |-> [s \in Subjects |-> <<>>], last |-> <<>>]>>
    /\ StreamIdle /\ CanaryIdle
    /\ OthersIdle

NextRate ==
    \/ (\E subject \in Subjects : CheckRateLimit(subject)) /\ RequestFrame
    \/ RateTick /\ RequestFrame

SpecRate == InitRate /\ [][NextRate]_vars

\* C40: check_rate_limit allows the first request of a previously unseen subject:
\* with burst >= 1 the first call for a subject returns True.
C40_FirstRequestAllowed ==
    (reqOut[1].last # <<>> /\ reqOut[1].last[1].unseen /\ reqIn.burst >= 1)
        => reqOut[1].last[1].allowed

====
